---- MODULE Spec2Model ----
(***************************************************************************)
(* Model of the document-to-vector ingestion pipeline of rag-system:       *)
(*   - the embedding client (src/src/azure_embedding.py),                  *)
(*   - the chunking engine (src/config/document_cleaner_enhanced.py),      *)
(*   - the ingestion orchestrator and its cache                            *)
(*     (src/src/ingest_qdrant_v2.py, src/src/utils/helpers.py).            *)
(* Each component has its own specification over the shared variables;     *)
(* the variables of the other components stay at their idle values.        *)
(***************************************************************************)
EXTENDS Integers, Sequences, FiniteSets, TLC

VARIABLES
    \* ---- embedding client: AzureOpenAIEmbedding.embed_batch / embed ----
    texts,           \* embed_batch argument: the list of texts (text ids)
    batch_size,      \* sub-batch size
    max_retries,     \* self.max_retries
    model_dim,       \* dimension of the vectors the remote model returns
    eb_pc,           \* "idle" | "loop" | "post" | "returned" | "raised"
    eb_i,            \* 1-based index of the current sub-batch
    eb_site,         \* which call of embed is running: "try" | "retry" | "single"
    eb_j,            \* 1-based index of the text inside the per-text fallback
    attempt,         \* embed's loop variable (0-based)
    all_embeddings,  \* embed_batch's result list
    request_count,   \* embed_batch's request counter
    failed_count,    \* embed_batch's failure counter
    single_failed,   \* history: texts whose individual embed(text) call failed
    retry_failed,    \* history: sub-batches whose rate-limit retry failed
    eb_call,         \* history: calls of embed started by this embed_batch
    posts,           \* history: POSTs issued so far by the running embed call
    last_fail,       \* history: the latest failed attempt of the running call
    gap,             \* history: the sleeps of this call since that failure
    now,             \* whole seconds since embed_batch began (MaxClock: later)
    post_log,        \* history: second -> number of POSTs issued in it
    \* ---- chunking engine: smart_chunk_text_enhanced ----
    ck_text,         \* text argument, a sequence of characters
    chunk_size,      \* chunk_size argument
    overlap,         \* overlap argument
    min_chunk_size,  \* min_chunk_size argument
    respect_sentence,\* respect_sentence argument
    ck_pc,           \* "idle" | "call" | "chars" | "done"
    ck_strategy,     \* "none" | "short" | "chars" | "spacy" | "nltk" | "regex"
    ck_sentences,    \* the sentence list handed to chunk assembly
    ck_start,        \* _chunk_by_chars: start
    ck_end,          \* _chunk_by_chars: end of the last window
    ck_iter,         \* history: iterations of the while loop so far
    ck_dropped,      \* history: windows or chunks dropped as too short
    ck_env,          \* HAS_SPACY with a model, HAS_NLTK, and what raises
    ck_tried,        \* history: the strategies attempted, in order
    chunks,          \* the chunk list being built / returned
    \* ---- ingestion orchestrator: DocumentIngester, DiskCache, the store ----
    ig_files,        \* the files of the directory, in traversal order
    skip_errors,     \* settings.processing.skip_errors
    file_batch_size, \* settings.processing.batch_size
    ig_run,          \* which run of ingest_directory this is (1, 2, ...)
    ig_pc,           \* "idle" | "process" | "embed" | "upsert" | "done" | "aborted"
    ig_fb,           \* 1-based index of the current file batch
    ig_k,            \* 1-based index of the current file inside the batch
    all_documents,   \* ingest_directory's all_documents of the current batch
    cache,           \* DiskCache: cache key -> the entry file of that key
    store,           \* the collection: the records held, one per point id
    built,           \* history: run -> file -> point ids built for upload
    ig_config,       \* the settings the run was started with
    faults,          \* history: the failures of this run, <<kind, index>>
    metrics,         \* PerformanceMetrics.counters of this run
    embed_call,      \* history: what the last embed_documents call did
    cache_ref,       \* history: text -> the value last set for it successfully
    cache_out,       \* history: the last DiskCache operation and its outcome
    sigint,          \* history: the KeyboardInterrupt delivered to the process
    \* ---- file loader: EnhancedDocumentCleaner.load_file_with_encoding ----
    ld_raw,          \* the bytes of the file
    ld_chardet,      \* self.use_chardet
    ld_detect,       \* what chardet.detect gives for the bytes
    ld_pc,           \* "idle" | "open" | "decode" | "done"
    ld_encoding,     \* the local variable encoding
    ld_out,          \* how the call ended and the text it returned
    \* ---- upload: DocumentIngester.upsert_to_qdrant ----
    up_points,       \* len(all_points)
    up_i,            \* the loop variable i
    up_pc,           \* "idle" | "loop" | "returned" | "raised"
    up_calls,        \* history: the upsert calls made, each the slice it sent
    up_sleeps,       \* history: the calls after which time.sleep(1) ran
    total_uploaded,  \* the local variable total_uploaded
    up_counted,      \* what the call added to the vectors_upserted counter
    \* ---- text cleaning: validate_and_clean_text / _general_clean ----
    cl_text,         \* the text argument
    cl_pc,           \* "idle" | "call" | "returned" | "again"
    cl_out,          \* the text the call returned
    cl_again         \* the text a second call, on cl_out, returned

embedVars == <<texts, batch_size, max_retries, model_dim, eb_pc, eb_i, eb_site,
               eb_j, attempt, all_embeddings, request_count, failed_count,
               single_failed, retry_failed, eb_call, posts, last_fail, gap,
               now, post_log>>

chunkVars == <<ck_text, chunk_size, overlap, min_chunk_size, respect_sentence,
               ck_pc, ck_strategy, ck_sentences, ck_start, ck_end, ck_iter,
               ck_dropped, ck_env, ck_tried, chunks>>

ingestState == <<ig_files, skip_errors, file_batch_size, ig_run, ig_pc, ig_fb,
                 ig_k, all_documents, cache, store, built, ig_config, faults,
                 metrics, embed_call, cache_ref, cache_out>>

ingestVars == <<ingestState, sigint>>

\* What no step of the orchestrator changes: the settings of the run, the
\* history of the cache operations made directly, and the interrupt, which
\* is delivered inside the embedding client.
ingestFixed == <<ig_config, cache_ref, cache_out, sigint>>

loadVars == <<ld_raw, ld_chardet, ld_detect, ld_pc, ld_encoding, ld_out>>

uploadVars == <<up_points, up_i, up_pc, up_calls, up_sleeps, total_uploaded,
                up_counted>>

cleanVars == <<cl_text, cl_pc, cl_out, cl_again>>

vars == <<embedVars, chunkVars, ingestVars, loadVars, uploadVars, cleanVars>>

nonEmbedVars == <<chunkVars, ingestVars, loadVars, uploadVars, cleanVars>>

nonChunkVars == <<embedVars, ingestVars, loadVars, uploadVars, cleanVars>>

nonIngestVars == <<embedVars, chunkVars, loadVars, uploadVars, cleanVars>>

nonLoadVars == <<embedVars, chunkVars, ingestVars, uploadVars, cleanVars>>

nonUploadVars == <<embedVars, chunkVars, ingestVars, loadVars, cleanVars>>

nonCleanVars == <<embedVars, chunkVars, ingestVars, loadVars, uploadVars>>

-----------------------------------------------------------------------------
\* Bounds of the model
MaxTexts == 3
MaxBatchSize == 2
MaxRetriesBound == 2
MaxLen == 4
MaxChunkSize == 3
MaxOverlap == 2
MaxMinSize == 3
MaxFiles == 2
MaxChunks == 2
MaxFileBatch == 2
MaxClock == 1
MaxRateRetries == 26
MaxBytes == 3
MaxSlack == 2
MaxPoints == 1001
MaxRuns == 3
MaxCleanLen == 5

\* Program constants
PlaceholderDim == 3072
RateCeiling == 50
UpsertBatchSize == 500
MaxChars == 30000
RateWindow == 60
DefaultRetryAfter == 10
DefaultMaxRetries == 3

\* Dimensions of the embedding models the configuration names
\* (text-embedding-ada-002: 1536, text-embedding-3-large: 3072).
ModelDims == {1536, 3072}

-----------------------------------------------------------------------------
\* Small helpers over sequences
Min2(a, b) == IF a < b THEN a ELSE b

\* items[i:i + size] in 0-based Python terms, as a 1-based TLA+ sequence
Slice(items, from0, to0) ==
    IF from0 >= Min2(to0, Len(items)) THEN <<>>
    ELSE SubSeq(items, from0 + 1, Min2(to0, Len(items)))

\* batch_iterator: range(0, len(items), size), items[i:i + size]
NumBatches(items, size) == (Len(items) + size - 1) \div size

batch_iterator(items, size) ==
    [b \in 1..NumBatches(items, size) |->
        Slice(items, (b - 1) * size, (b - 1) * size + size)]

-----------------------------------------------------------------------------
\* Vectors.  A vector is known by what it is the embedding of; a placeholder
\* remembers the text it was made for (history only) and has length 3072.
Emb(t) == [kind |-> "emb", text |-> t, dim |-> model_dim]

ZeroVector(t) == [kind |-> "zero", text |-> t, dim |-> PlaceholderDim]

\* Exceptions embed can raise, by what str(e).lower() contains.
\*   "http400"   HTTPError "400 Client Error: Bad Request for url: ..."
\*   "httpRate"  HTTPError of another status whose text mentions "rate limit"
\*   "http5xx"   HTTPError of any other status
\*   "timeout"   requests Timeout / ConnectionError
\*   "maxRetries" Exception("Max retries exceeded")
Errors == {"http400", "httpRate", "http5xx", "timeout", "maxRetries"}

\* "rate limit" in error_msg or "429" in error_msg
IsRateLimitSignal(e) == e = "httpRate"

\* "400" in error_msg or "model_error" in error_msg
IsContentSignal(e) == e = "http400"

-----------------------------------------------------------------------------
\* embed_batch

batches == batch_iterator(texts, batch_size)

batch == batches[eb_i]

\* How an attempt of embed failed; header is the Retry-After header of a 429.
Fail(kind, header) == [kind |-> kind, header |-> header]

NoFail == Fail("none", "n/a")

\* Nothing has been sent and no time has passed (line 173: start_minute).
EmbedHistoryStart ==
    /\ eb_call = 0
    /\ posts = 0
    /\ last_fail = NoFail
    /\ gap = <<>>
    /\ now = 0
    /\ post_log = [s \in 0..(MaxClock - 1) |-> 0]

EmbedStart ==
    /\ \E n \in 0..MaxTexts : texts = [k \in 1..n |-> k]
    /\ batch_size \in 1..MaxBatchSize
    /\ max_retries \in 1..MaxRetriesBound
    /\ model_dim \in ModelDims
    /\ eb_pc = "loop"
    /\ eb_i = 1
    /\ eb_site = "try"
    /\ eb_j = 1
    /\ attempt = 0
    /\ all_embeddings = <<>>
    /\ request_count = 0
    /\ failed_count = 0
    /\ single_failed = {}
    /\ retry_failed = {}
    /\ EmbedHistoryStart

\* The embedding client at rest (the other components' specifications).
EmbedIdle ==
    /\ texts = <<>>
    /\ batch_size = 1
    /\ max_retries = 1
    /\ model_dim = PlaceholderDim
    /\ eb_pc = "idle"
    /\ eb_i = 1
    /\ eb_site = "try"
    /\ eb_j = 1
    /\ attempt = 0
    /\ all_embeddings = <<>>
    /\ request_count = 0
    /\ failed_count = 0
    /\ single_failed = {}
    /\ retry_failed = {}
    /\ EmbedHistoryStart

\* The libraries the chunking engine runs with: spacy says that spaCy is
\* installed with a model for the text (HAS_SPACY and nlp is not None), nltk
\* that NLTK is (HAS_NLTK); raises holds the strategies that raise on the
\* text of the call.
Env(spacy, nltk, raises) == [spacy |-> spacy, nltk |-> nltk, raises |-> raises]

\* The chunking engine at rest (the other components' specifications).
ChunkIdle ==
    /\ ck_text = <<>>
    /\ chunk_size = 1
    /\ overlap = 0
    /\ min_chunk_size = 0
    /\ respect_sentence = FALSE
    /\ ck_pc = "idle"
    /\ ck_strategy = "none"
    /\ ck_sentences = <<>>
    /\ ck_start = 0
    /\ ck_end = 0
    /\ ck_iter = 0
    /\ ck_dropped = 0
    /\ ck_env = Env(FALSE, FALSE, {})
    /\ ck_tried = <<>>
    /\ chunks = <<>>

\* What load_file_with_encoding gave: nothing yet.
NoLoad == [status |-> "none", text |-> <<>>]

\* The file loader at rest (the other components' specifications).
LoadIdle ==
    /\ ld_raw = <<>>
    /\ ld_chardet = FALSE
    /\ ld_detect = [encoding |-> "None", confidence |-> 0]
    /\ ld_pc = "idle"
    /\ ld_encoding = "None"
    /\ ld_out = NoLoad

\* The upload at rest (the other components' specifications).
UploadIdle ==
    /\ up_points = 0
    /\ up_i = 0
    /\ up_pc = "idle"
    /\ up_calls = <<>>
    /\ up_sleeps = {}
    /\ total_uploaded = 0
    /\ up_counted = 0

\* No text is being cleaned (the other components' specifications).
CleanIdle ==
    /\ cl_text = <<>>
    /\ cl_pc = "idle"
    /\ cl_out = <<>>
    /\ cl_again = <<>>

\* The files a directory may hold.  A content is known by its chunks: chunk
\* i of content c has the text <<c, i>>, so two files of equal content give
\* equal chunk texts.
FileNames == {[stem |-> "a", ext |-> "txt"], [stem |-> "b", ext |-> "txt"],
              [stem |-> "a", ext |-> "md"]}

\* The content of each file: a.md is a copy of a.txt in another format.
ContentOf(name) == IF name.stem = "a" THEN "x" ELSE "y"

Contents == {"x", "y"}

\* The runs of the re-ingestion scenario: a first run and one repetition.
Runs == {1, 2}

ChunkTexts == Contents \X (0..(MaxChunks - 1))

NoVector == [kind |-> "none"]

\* A text that is no chunk of the directories above and whose MD5 digest is
\* that of the chunk text <<"x", 0>>.  MD5 maps all texts to 128 bits and
\* texts of equal digest are known: the 72-character texts
\* TEXTCOLLBYfGiJUETHQ4hAcKSMd5zYpgqf1YRDhkmxHkhPWptrkoyz28wnI9V0aHeAuaKnak
\* and
\* TEXTCOLLBYfGiJUETHQ4hEcKSMd5zYpgqf1YRDhkmxHkhPWptrkoyz28wnI9V0aHeAuaKnak
\* both have the digest faad49866e9498fc1719f5289e7a0269.
TwinText == <<"x-twin", 0>>

\* DiskCache._get_key (helpers.py lines 284-286): the MD5 digest of the text.
get_key(text) ==
    IF text = TwinText THEN <<"md5", <<"x", 0>>>> ELSE <<"md5", text>>

\* The entry file of a key: none (NoVector), a pickle of a value, or a file
\* that cannot be loaded (truncated, damaged, unreadable).
Corrupt == [kind |-> "corrupt"]

\* pickle.dump(value, f) (helpers.py line 310)
pickle_dump(value) == [kind |-> "pkl", value |-> value]

\* pickle.load(f) (helpers.py line 297)
pickle_load(entry) == entry.value

\* The texts handed to the cache when it is used directly, and the values
\* stored for a text.
CacheTexts == {<<"x", 0>>, <<"y", 0>>, TwinText}

CacheValues(t) ==
    {[kind |-> "emb", text |-> t, dim |-> 1536], ZeroVector(t)}

\* No cache operation has been made directly.
NoCacheOp ==
    [op |-> "none", text |-> <<>>, result |-> NoVector, io |-> "ok",
     status |-> "returned", changed |-> FALSE]

\* cache_ref of a text for which the claim of a round trip says nothing:
\* a write of it has failed since it was last set.
Unknown == [kind |-> "unknown"]

\* f"{file_path.stem}_{i}" (ingest_qdrant_v2.py line 203): the stem and the
\* index can both be read back from it (the index holds no "_").
DocId(file, i) == <<file.stem, i>>

\* Settings as far as Settings.validate looks at them (settings.py lines
\* 12-60): the defaults, and the ways validate rejects.
Config(port, size, ov, min_size) ==
    [port |-> port, chunk_size |-> size, overlap |-> ov,
     min_chunk_size |-> min_size]

DefaultConfig == Config(6333, 800, 150, 100)

Configs ==
    {DefaultConfig, Config(0, 800, 150, 100), Config(6333, 50, 10, 100),
     Config(6333, 100, 150, 10)}

\* Settings.validate (settings.py lines 205-228), host and API key being set.
validate(cfg) ==
    /\ ~(cfg.port < 1 \/ cfg.port > 65535)
    /\ ~(cfg.chunk_size < cfg.min_chunk_size)
    /\ ~(cfg.overlap >= cfg.chunk_size)

\* PerformanceMetrics.counters (helpers.py lines 166-197): a defaultdict(int),
\* every counter reads 0 until incremented.
ZeroMetrics ==
    [documents_processed |-> 0, documents_failed |-> 0, chunks_created |-> 0,
     cache_hits |-> 0, embeddings_generated |-> 0, vectors_upserted |-> 0]

\* PerformanceMetrics.increment (helpers.py lines 195-197)
increment(m, name, value) == [m EXCEPT ![name] = @ + value]

\* embed_documents has not been called for the current file batch.
NoEmbedCall == [called |-> FALSE, sent |-> <<>>, hits |-> {}]

\* No ingestion run is going on.
NoRun ==
    /\ ig_files = <<>>
    /\ skip_errors = TRUE
    /\ file_batch_size = 1
    /\ ig_run = 1
    /\ ig_pc = "idle"
    /\ ig_fb = 1
    /\ ig_k = 1
    /\ all_documents = <<>>
    /\ store = {}
    /\ built = <<>>
    /\ ig_config = DefaultConfig
    /\ faults = {}
    /\ metrics = ZeroMetrics
    /\ embed_call = NoEmbedCall
    /\ sigint = "none"

\* The orchestrator at rest (the other components' specifications).
IngestIdle ==
    /\ NoRun
    /\ cache = <<>>
    /\ cache_ref = <<>>
    /\ cache_out = NoCacheOp

\* Time in whole seconds, kept up to MaxClock: now = MaxClock stands for "at
\* MaxClock seconds or later", and POSTs issued then are not in post_log.
Tick(t, d) == Min2(t + d, MaxClock)

\* The POST sent at this moment, entered under its second.
LogPost ==
    IF now < MaxClock THEN [post_log EXCEPT ![now] = @ + 1] ELSE post_log

\* Whole seconds a POST may take to be answered or to fail.
Latencies == {0, 1}

\* The Retry-After header of a 429 answer: absent, or the text "2".
RetryAfterHeaders == {"absent", "2"}

\* Line 103: int(response.headers.get('Retry-After', 10))
RetryAfter(h) == IF h = "absent" THEN DefaultRetryAfter ELSE 2

\* Line 135: 2 ** attempt
RECURSIVE Pow2(_)
Pow2(n) == IF n = 0 THEN 1 ELSE 2 * Pow2(n - 1)

\* A call of embed is entered: line 93, before its first POST.
BeginCall ==
    /\ eb_call' = eb_call + 1
    /\ attempt' = 0

\* The history of the running call after one more POST that failed as fail
\* and was followed by sleeps; a call entered in the same step starts afresh.
CallHistory(fail, sleeps) ==
    IF eb_call' = eb_call
    THEN /\ posts' = posts + 1
         /\ last_fail' = fail
         /\ gap' = sleeps
    ELSE /\ posts' = 0
         /\ last_fail' = NoFail
         /\ gap' = <<>>

\* The history of the running call after one more POST that was answered 200.
CallHistoryOk ==
    IF eb_call' = eb_call
    THEN /\ posts' = posts + 1
         /\ UNCHANGED <<last_fail, gap>>
    ELSE /\ posts' = 0
         /\ last_fail' = NoFail
         /\ gap' = <<>>

\* Lines 222-225: the for loop is exhausted, embed_batch returns.
ReturnBatch ==
    /\ eb_pc = "loop"
    /\ eb_i > Len(batches)
    /\ eb_pc' = "returned"
    /\ UNCHANGED <<texts, batch_size, max_retries, model_dim, eb_i, eb_site,
                   eb_j, attempt, all_embeddings, request_count, failed_count,
                   single_failed, retry_failed, eb_call, posts, last_fail,
                   gap, now, post_log>>
    /\ UNCHANGED nonEmbedVars

\* Line 178: elapsed = time.time() - start_minute, as far as the clock tells:
\* RateWindow stands for "60 seconds or more".
GuardElapsed == IF now < MaxClock THEN 0..now ELSE 0..RateWindow

\* Lines 176-187: top of the loop body: the rate guard, then embed(batch) is
\* entered.
StartBatch ==
    /\ eb_pc = "loop"
    /\ eb_i <= Len(batches)
    /\ IF request_count >= RateCeiling
       THEN \E elapsed \in GuardElapsed :
               IF elapsed < RateWindow
               THEN /\ request_count' = 0
                    /\ now' = Tick(now, (RateWindow - elapsed) + 5)
               ELSE /\ request_count' = request_count
                    /\ now' = now
       ELSE /\ request_count' = request_count
            /\ now' = now
    /\ eb_pc' = "post"
    /\ eb_site' = "try"
    /\ BeginCall
    /\ posts' = 0
    /\ last_fail' = NoFail
    /\ gap' = <<>>
    /\ UNCHANGED <<texts, batch_size, max_retries, model_dim, eb_i, eb_j,
                   all_embeddings, failed_count, single_failed, retry_failed,
                   post_log>>
    /\ UNCHANGED nonEmbedVars

\* The next sub-batch: back to the top of the for loop, at time t.
NextBatch(embs, failed, sf, rf, rc, t) ==
    /\ all_embeddings' = embs
    /\ failed_count' = failed
    /\ single_failed' = sf
    /\ retry_failed' = rf
    /\ request_count' = rc
    /\ now' = t
    /\ eb_i' = eb_i + 1
    /\ eb_pc' = "loop"
    /\ eb_site' = "try"
    /\ eb_j' = 1
    /\ attempt' = 0
    /\ eb_call' = eb_call

\* Lines 210-218: after text j of the per-text fallback is settled at time t,
\* vs being what it appended.
AfterSingle(vs, failed, sf, t) ==
    IF eb_j < Len(batch)
    THEN /\ all_embeddings' = all_embeddings \o vs
         /\ failed_count' = failed
         /\ single_failed' = sf
         /\ eb_j' = eb_j + 1
         /\ BeginCall
         /\ now' = t
         /\ eb_pc' = "post"
         /\ UNCHANGED <<eb_i, eb_site, request_count, retry_failed>>
    ELSE NextBatch(all_embeddings \o vs, failed, sf, retry_failed,
                   request_count, t)

\* A slip of lines 204-205: one placeholder appended for the whole sub-batch.
RetryFailedFillOne == <<ZeroVector(batch[1])>>

\* Lines 204-205: what the failed rate-limit retry appends.
RetryFailedFill == [k \in 1..Len(batch) |-> ZeroVector(batch[k])]

\* Lines 216-218: what a failed individual text appends.
SingleFailedFill == <<ZeroVector(batch[eb_j])>>

\* embed returned normally, at time t, at the running call site.
OnEmbedReturn(t) ==
    CASE eb_site = "try" ->
            \* lines 187-190: extend, count the request, sleep 2.0
            NextBatch(all_embeddings \o [k \in 1..Len(batch) |-> Emb(batch[k])],
                      failed_count, single_failed, retry_failed,
                      request_count + 1, Tick(t, 2))
      [] eb_site = "retry" ->
            \* lines 199-200
            NextBatch(all_embeddings \o [k \in 1..Len(batch) |-> Emb(batch[k])],
                      failed_count, single_failed, retry_failed, request_count,
                      t)
      [] eb_site = "single" ->
            \* lines 212-214: append, sleep 1
            AfterSingle(<<Emb(batch[eb_j])>>, failed_count, single_failed,
                        Tick(t, 1))

\* embed raised e, at time t, at the running call site.
OnEmbedRaise(e, t) ==
    CASE eb_site = "try" ->
            \* lines 192-220
            IF IsRateLimitSignal(e)
            THEN \* lines 196-199: sleep 30, embed(batch) again
                 /\ eb_site' = "retry"
                 /\ BeginCall
                 /\ now' = Tick(t, 30)
                 /\ eb_pc' = "post"
                 /\ UNCHANGED <<eb_i, eb_j, all_embeddings, request_count,
                                failed_count, single_failed, retry_failed>>
            ELSE IF IsContentSignal(e)
            THEN /\ eb_site' = "single"
                 /\ eb_j' = 1
                 /\ BeginCall
                 /\ now' = t
                 /\ eb_pc' = "post"
                 /\ UNCHANGED <<eb_i, all_embeddings, request_count,
                                failed_count, single_failed, retry_failed>>
            ELSE /\ eb_pc' = "raised"
                 /\ now' = t
                 /\ UNCHANGED <<eb_i, eb_site, eb_j, attempt, all_embeddings,
                                request_count, failed_count, single_failed,
                                retry_failed, eb_call>>
      [] eb_site = "retry" ->
            \* lines 201-205
            NextBatch(all_embeddings \o RetryFailedFill, failed_count + 1,
                      single_failed, retry_failed \cup {eb_i}, request_count, t)
      [] eb_site = "single" ->
            \* lines 215-218
            AfterSingle(SingleFailedFill, failed_count + 1,
                        single_failed \cup {batch[eb_j]}, t)

\* embed goes round its for loop once more, at time t, with loop variable a.
NextAttempt(a, t) ==
    /\ attempt' = a
    /\ now' = t
    /\ UNCHANGED <<eb_pc, eb_i, eb_site, eb_j, all_embeddings, request_count,
                   failed_count, single_failed, retry_failed, eb_call>>

-----------------------------------------------------------------------------
\* embed: one iteration of "for attempt in range(self.max_retries)" per action

\* Lines 95-120: the POST is answered 200 with one embedding per input.
PostOk ==
    /\ eb_pc = "post"
    /\ \E lat \in Latencies : OnEmbedReturn(Tick(now, lat))
    /\ post_log' = LogPost
    /\ CallHistoryOk
    /\ UNCHANGED <<texts, batch_size, max_retries, model_dim>>
    /\ UNCHANGED nonEmbedVars

\* A slip of line 106: the 429 retry goes round without using up an attempt.
AttemptAfter429Free == attempt

\* Line 106: continue: the for loop moves to its next attempt.
AttemptAfter429 == attempt + 1

\* A slip of line 105: no sleep before the retry.
SleepsAfter429None(retry_after) == <<>>

\* Lines 103-105: the sleeps a 429 answer causes.
SleepsAfter429(retry_after) == <<retry_after>>

\* Lines 137: the sleeps a failure caught by "except Exception" causes before
\* the next attempt.
SleepsAfterException == <<Pow2(attempt)>>

\* Lines 122-131: the sleeps an HTTPError (status other than 429) causes before
\* the next attempt: none.
SleepsAfterHttpError == <<>>

\* The seconds a list of sleeps takes.
RECURSIVE Total(_)
Total(sleeps) ==
    IF sleeps = <<>> THEN 0 ELSE Head(sleeps) + Total(Tail(sleeps))

\* Lines 102-106 and 141: the POST is answered 429: sleep Retry-After and
\* continue; when the loop is exhausted, raise Exception("Max retries exceeded").
Post429 ==
    /\ eb_pc = "post"
    /\ \E lat \in Latencies, h \in RetryAfterHeaders :
          LET sleeps == SleepsAfter429(RetryAfter(h))
              t == Tick(Tick(now, lat), Total(sleeps))
          IN  /\ IF attempt + 1 < max_retries
                 THEN NextAttempt(AttemptAfter429, t)
                 ELSE OnEmbedRaise("maxRetries", t)
              /\ CallHistory(Fail("429", h), sleeps)
    /\ post_log' = LogPost
    /\ UNCHANGED <<texts, batch_size, max_retries, model_dim>>
    /\ UNCHANGED nonEmbedVars

\* Lines 115, 122-131: raise_for_status raises HTTPError (the status is not
\* 429 here); it is re-raised on the last attempt only, and the loop goes on
\* at once otherwise.
PostHttpError ==
    /\ eb_pc = "post"
    /\ \E lat \in Latencies, e \in {"http400", "httpRate", "http5xx"} :
          IF attempt = max_retries - 1
          THEN /\ OnEmbedRaise(e, Tick(now, lat))
               /\ CallHistory(Fail("http", "n/a"), <<>>)
          ELSE /\ NextAttempt(attempt + 1,
                              Tick(Tick(now, lat), Total(SleepsAfterHttpError)))
               /\ CallHistory(Fail("http", "n/a"), SleepsAfterHttpError)
    /\ post_log' = LogPost
    /\ UNCHANGED <<texts, batch_size, max_retries, model_dim>>
    /\ UNCHANGED nonEmbedVars

\* Lines 133-139: a timeout or connection error: back off 2 ** attempt, or
\* re-raise on the last attempt.
PostTimeout ==
    /\ eb_pc = "post"
    /\ \E lat \in Latencies :
          IF attempt < max_retries - 1
          THEN /\ NextAttempt(attempt + 1,
                              Tick(Tick(now, lat), Total(SleepsAfterException)))
               /\ CallHistory(Fail("timeout", "n/a"), SleepsAfterException)
          ELSE /\ OnEmbedRaise("timeout", Tick(now, lat))
               /\ CallHistory(Fail("timeout", "n/a"), <<>>)
    /\ post_log' = LogPost
    /\ UNCHANGED <<texts, batch_size, max_retries, model_dim>>
    /\ UNCHANGED nonEmbedVars

EmbedNext ==
    \/ StartBatch
    \/ ReturnBatch
    \/ PostOk
    \/ Post429
    \/ PostHttpError
    \/ PostTimeout

EmbedInit == EmbedStart /\ ChunkIdle /\ IngestIdle /\ LoadIdle /\ UploadIdle
    /\ CleanIdle

SpecEmbed == EmbedInit /\ [][EmbedNext]_vars

\* The history of the running call when a step sends no POST; a call
\* entered in the same step starts afresh.
CallHistoryKept ==
    IF eb_call' = eb_call
    THEN UNCHANGED <<posts, last_fail, gap>>
    ELSE /\ posts' = 0
         /\ last_fail' = NoFail
         /\ gap' = <<>>

\* KeyboardInterrupt leaves embed_batch (it is no Exception: the handlers of
\* embed, lines 123-139, and line 192 let it through).
InterruptRaised ==
    /\ eb_pc' = "interrupted"
    /\ sigint' = "raised"
    /\ UNCHANGED <<eb_i, eb_site, eb_j, attempt, all_embeddings, request_count,
                   failed_count, single_failed, retry_failed, eb_call, now>>

\* The user interrupts the process (SIGINT) while an embed call of
\* embed_batch is under way: KeyboardInterrupt is raised inside the call or
\* inside the sleep next to it.  At the first call of a sub-batch it leaves
\* embed_batch; so it does in the sleep of line 198; the bare except of line
\* 201 catches it in the retry, that of line 215 in the per-text call and in
\* the sleep of line 214, which comes after the embedding was appended.
Interrupt ==
    /\ eb_pc = "post"
    /\ sigint = "none"
    /\ \E where \in {"call", "sleep"} :
          CASE eb_site = "try" -> InterruptRaised
            [] eb_site = "retry" ->
                  IF where = "sleep"
                  THEN posts = 0 /\ InterruptRaised
                  ELSE /\ NextBatch(all_embeddings \o RetryFailedFill,
                                    failed_count + 1, single_failed,
                                    retry_failed \cup {eb_i}, request_count, now)
                       /\ sigint' = "absorbed"
            [] eb_site = "single" ->
                  /\ AfterSingle((IF where = "sleep" THEN <<Emb(batch[eb_j])>>
                                   ELSE <<>>) \o SingleFailedFill,
                                 failed_count + 1,
                                 single_failed \cup {batch[eb_j]}, now)
                  /\ sigint' = "absorbed"
    /\ CallHistoryKept
    /\ UNCHANGED <<texts, batch_size, max_retries, model_dim, post_log>>
    /\ UNCHANGED <<chunkVars, ingestState, loadVars, uploadVars, cleanVars>>

InterruptNext ==
    \/ EmbedNext
    \/ Interrupt

SpecInterrupt == EmbedInit /\ [][InterruptNext]_vars

\* embed_batch is given one text, by a client whose retry budget is in
\* budgets (max_retries is a constructor argument, line 29).
OneTextStart(budgets) ==
    /\ texts = <<1>>
    /\ batch_size = 1
    /\ max_retries \in budgets
    /\ model_dim \in ModelDims
    /\ eb_pc = "loop"
    /\ eb_i = 1
    /\ eb_site = "try"
    /\ eb_j = 1
    /\ attempt = 0
    /\ all_embeddings = <<>>
    /\ request_count = 0
    /\ failed_count = 0
    /\ single_failed = {}
    /\ retry_failed = {}
    /\ EmbedHistoryStart

\* The default retry budget, and a large one.
RateInit ==
    /\ OneTextStart({DefaultMaxRetries, MaxRateRetries})
    /\ ChunkIdle
    /\ IngestIdle
    /\ LoadIdle
    /\ UploadIdle
    /\ CleanIdle

SpecRate == RateInit /\ [][EmbedNext]_vars

CallInit == OneTextStart(1..MaxRetriesBound) /\ ChunkIdle /\ IngestIdle /\ LoadIdle
    /\ UploadIdle
    /\ CleanIdle

\* The calls of embed that one text causes.  The code runs to completion:
\* every POST is answered or times out (timeout=self.timeout, line 99) and
\* every sleep ends.
SpecCall == CallInit /\ [][EmbedNext]_vars /\ WF_vars(EmbedNext)

-----------------------------------------------------------------------------
\* Claims about the embedding client (checked under SpecEmbed)

\* C1: embed_batch returns normally, with one vector per input text, for
\* every pattern of remote failures: it never ends by raising.
C1_NeverAborts ==
    /\ eb_pc # "raised"
    /\ eb_pc = "returned" => Len(all_embeddings) = Len(texts)

\* C2: whenever embed_batch returns, there is one output per input and the
\* k-th output is the embedding of, or the placeholder made for, the k-th
\* input text.
C2_OrderPreserved ==
    eb_pc = "returned" =>
        /\ Len(all_embeddings) = Len(texts)
        /\ \A k \in 1..Len(texts) : all_embeddings[k].text = texts[k]

\* C2 witness: a return after a per-text fallback with a failed text, a failed
\* rate-limit retry and a real embedding, over several sub-batches.
C2_Witness ==
    /\ eb_pc = "returned"
    /\ Len(texts) = MaxTexts
    /\ batch_size > 1
    /\ single_failed # {}
    /\ retry_failed # {}
    /\ \E k \in 1..Len(all_embeddings) : all_embeddings[k].kind = "emb"

\* C4: every vector embed_batch holds has the dimension of the model's
\* vectors (the collection's vector_size), placeholders included.
C4_SameDimension ==
    \A k \in 1..Len(all_embeddings) : all_embeddings[k].dim = model_dim

\* C10: after a failed rate-limit retry embed_batch embeds the texts of the
\* sub-batch one by one, so a placeholder stands only for a text whose
\* individual call failed.
C10_ZeroOnlyAfterIndividualFailure ==
    \A k \in 1..Len(all_embeddings) :
        all_embeddings[k].kind = "zero" =>
            all_embeddings[k].text \in single_failed

\* C11: in embed, a failed attempt other than a 429 (an HTTP error status, a
\* timeout, a connection error) that is not the last one is followed, before
\* the next POST, by one backoff sleep of 2 ** attempt seconds; and a call
\* that raises has made max_retries attempts, the last of them a failure.
C11_BackoffBeforeRetry ==
    /\ (eb_pc = "post" /\ attempt > 0 /\ last_fail.kind \in {"http", "timeout"})
          => gap = <<Pow2(attempt - 1)>>
    /\ eb_pc = "raised" => (posts = max_retries /\ last_fail.kind # "none")

\* The calls of embed one call of embed_batch can make: at most two a text.
EmbedCalls == 1..(2 * MaxTexts)

\* C12: a call of embed issues at most max_retries POSTs, 429 answers
\* included, and it ends: it returns or raises.
C12_EmbedBounded ==
    /\ [](posts <= max_retries /\ (eb_pc = "post" => posts < max_retries))
    /\ \A c \in EmbedCalls :
          (eb_call = c /\ eb_pc = "post") ~> (eb_call # c \/ eb_pc # "post")

\* C12 witness: a call that was answered 429 at every attempt has ended after
\* max_retries POSTs, max_retries being more than one.
C12_Witness ==
    /\ eb_pc = "raised"
    /\ max_retries > 1
    /\ posts = max_retries
    /\ last_fail.kind = "429"

\* C13: when the first POST of embed(batch) is answered 429 with Retry-After: 2
\* and the second one succeeds, exactly one sleep, of at least 2 seconds, lies
\* between the two POSTs, the vectors of the sub-batch are appended, and
\* embed_batch counts one request, no failure and no placeholder.
C13_RetryAfterThenSuccess ==
    [][(/\ eb_pc = "post"
        /\ eb_site = "try"
        /\ posts = 1
        /\ last_fail = Fail("429", "2")
        /\ eb_pc' = "loop")
       => (/\ Len(gap) = 1
           /\ gap[1] >= 2
           /\ posts' = 2
           /\ all_embeddings' =
                 all_embeddings \o [k \in 1..Len(batch) |-> Emb(batch[k])]
           /\ request_count' = request_count + 1
           /\ failed_count' = failed_count)]_vars

\* C13 witness: the first call of embed has returned at its second POST, the
\* first having been answered 429 with Retry-After: 2.
C13_Witness ==
    /\ eb_pc = "loop"
    /\ eb_call = 1
    /\ posts = 2
    /\ last_fail = Fail("429", "2")
    /\ gap = <<2>>
    /\ request_count = 1
    /\ failed_count = 0

\* The POSTs issued in the seconds from..to, as far as post_log holds them.
RECURSIVE PostsBetween(_, _)
PostsBetween(from, to) ==
    IF from > to \/ from > MaxClock - 1 THEN 0
    ELSE post_log[from] + PostsBetween(from + 1, to)

\* C14: no 60 consecutive seconds of one embed_batch call hold more than 50
\* POSTs, whichever call of embed issued them.
C14_RateCeiling ==
    \A s \in 0..(MaxClock - 1) :
        PostsBetween(s, s + RateWindow - 1) <= RateCeiling

\* C34: when every attempt of embed(batch) was answered 429, embed_batch
\* takes the failure for a rate-limit signal and retries the sub-batch: it
\* does not raise it.
C34_Exhausted429Recognised ==
    (eb_pc = "raised" /\ eb_site = "try" /\ posts = max_retries)
        => last_fail.kind # "429"

\* C36: request_count follows the rate window: between two sub-batches it
\* counts every POST issued since the window start.  (Below RateCeiling
\* counted requests the window start is the start of the call, second 0,
\* and post_log holds the POSTs of the first MaxClock seconds.)
C36_CountFollowsWindow ==
    (eb_pc \in {"loop", "returned"} /\ request_count < RateCeiling)
        => request_count >= PostsBetween(0, MaxClock - 1)

\* The placeholders in embed_batch's result list.
Placeholders == {k \in 1..Len(all_embeddings) : all_embeddings[k].kind = "zero"}

C23_InterruptStops ==
    sigint # "none" => (sigint = "raised" /\ eb_pc = "interrupted")

-----------------------------------------------------------------------------
\* Chunking engine.  A text is a sequence of characters over Alphabet; "." is
\* the terminal punctuation mark and " " the whitespace character.
Alphabet == {"a", ".", " "}

IsSpace(c) == c = " "

IsTerminal(c) == c = "."

TextsUpTo(n) == UNION {[1..m -> Alphabet] : m \in 0..n}

RECURSIVE LStrip(_)
LStrip(s) ==
    IF s # <<>> /\ IsSpace(Head(s)) THEN LStrip(Tail(s)) ELSE s

RECURSIVE RStrip(_)
RStrip(s) ==
    IF s # <<>> /\ IsSpace(s[Len(s)]) THEN RStrip(SubSeq(s, 1, Len(s) - 1))
    ELSE s

\* str.strip()
Strip(s) == RStrip(LStrip(s))

\* ' '.join(items)
RECURSIVE Join(_)
Join(items) ==
    IF items = <<>> THEN <<>>
    ELSE IF Len(items) = 1 THEN items[1]
    ELSE items[1] \o <<" ">> \o Join(Tail(items))

\* A slip of lines 391, 409, 425: the length test left out.
KeepChunkAlways(chunk_text, min_size) == TRUE

\* Lines 391, 409, 425: a chunk is kept only if it is long enough.
KeepChunk(chunk_text, min_size) == Len(chunk_text) >= min_size

\* A slip of line 396: nothing is carried over.
OverlapTextNone(chunk_text, ov) == <<>>

\* Line 396: chunk_text[-overlap:] if len(chunk_text) > overlap else chunk_text
OverlapText(chunk_text, ov) ==
    IF Len(chunk_text) > ov
    THEN SubSeq(chunk_text, Len(chunk_text) - ov + 1, Len(chunk_text))
    ELSE chunk_text

\* A slip of lines 395-401: the closed chunk's last sentence carried over as
\* the overlap.
SeedChunkKeepLast(current_chunk, chunk_text, ov, item) ==
    IF ov > 0
    THEN <<current_chunk[Len(current_chunk)], item>>
    ELSE <<item>>

\* Lines 395-401: the chunk that follows a closed one.  An item of
\* current_chunk is its text and the index of the sentence it is (0 for the
\* overlap text, which is no sentence of the input).
SeedChunk(current_chunk, chunk_text, ov, item) ==
    IF ov > 0
    THEN <<[txt |-> OverlapText(chunk_text, ov), src |-> 0], item>>
    ELSE <<item>>

ItemTexts(current_chunk) ==
    [n \in 1..Len(current_chunk) |-> current_chunk[n].txt]

\* The sentences of the input a chunk holds outside its overlap text.
ItemSources(current_chunk) ==
    LET RECURSIVE Srcs(_)
        Srcs(items) ==
            IF items = <<>> THEN <<>>
            ELSE (IF Head(items).src = 0 THEN <<>> ELSE <<Head(items).src>>)
                 \o Srcs(Tail(items))
    IN Srcs(current_chunk)

\* current_size after SeedChunk (lines 398, 401)
RECURSIVE SumLen(_)
SumLen(items) ==
    IF items = <<>> THEN 0 ELSE Len(Head(items).txt) + SumLen(Tail(items))

\* A chunk of the result: its text and, as history, the input sentences of
\* its non-overlap region.
MkChunk(current_chunk) ==
    [text |-> Join(ItemTexts(current_chunk)), parts |-> ItemSources(current_chunk)]

\* A slip of line 388: the chunk is closed once it is over the size.
OverflowsLate(current_size, sentence_len, size) == current_size > size

\* Line 388: current_size + sentence_len > chunk_size
Overflows(current_size, sentence_len, size) == current_size + sentence_len > size

\* A slip of lines 394-401: the next chunk is seeded with overlap text only
\* after a chunk that was kept.
BuildStepSeedKeptOnly(acc, sentences, k, size, ov, min_size) ==
    LET sentence == Strip(sentences[k])
        sentence_len == Len(sentence)
        item == [txt |-> sentence, src |-> k]
        chunk_text == Join(ItemTexts(acc.current_chunk))
    IN IF sentence = <<>> THEN acc
       ELSE IF /\ Overflows(acc.current_size, sentence_len, size)
               /\ acc.current_chunk # <<>>
       THEN LET seeded == IF KeepChunk(chunk_text, min_size)
                          THEN SeedChunk(acc.current_chunk, chunk_text, ov, item)
                          ELSE <<item>>
            IN [chunks |-> IF KeepChunk(chunk_text, min_size)
                           THEN Append(acc.chunks, MkChunk(acc.current_chunk))
                           ELSE acc.chunks,
                current_chunk |-> seeded,
                current_size |-> SumLen(seeded),
                dropped |-> IF KeepChunk(chunk_text, min_size)
                            THEN acc.dropped ELSE acc.dropped + 1]
       ELSE [chunks |-> acc.chunks,
             current_chunk |-> Append(acc.current_chunk, item),
             current_size |-> acc.current_size + sentence_len,
             dropped |-> acc.dropped]

\* Lines 381-404: the body of the for loop over the sentences, for sentence
\* number k; acc is (chunks, current_chunk, current_size, dropped).
BuildStep(acc, sentences, k, size, ov, min_size) ==
    LET sentence == Strip(sentences[k])
        sentence_len == Len(sentence)
        item == [txt |-> sentence, src |-> k]
        chunk_text == Join(ItemTexts(acc.current_chunk))
    IN IF sentence = <<>> THEN acc
       ELSE IF /\ Overflows(acc.current_size, sentence_len, size)
               /\ acc.current_chunk # <<>>
       THEN LET seeded == SeedChunk(acc.current_chunk, chunk_text, ov, item)
            IN [chunks |-> IF KeepChunk(chunk_text, min_size)
                           THEN Append(acc.chunks, MkChunk(acc.current_chunk))
                           ELSE acc.chunks,
                current_chunk |-> seeded,
                current_size |-> SumLen(seeded),
                dropped |-> IF KeepChunk(chunk_text, min_size)
                            THEN acc.dropped ELSE acc.dropped + 1]
       ELSE [chunks |-> acc.chunks,
             current_chunk |-> Append(acc.current_chunk, item),
             current_size |-> acc.current_size + sentence_len,
             dropped |-> acc.dropped]

RECURSIVE BuildLoop(_, _, _, _, _, _)
BuildLoop(acc, sentences, k, size, ov, min_size) ==
    IF k > Len(sentences) THEN acc
    ELSE BuildLoop(BuildStep(acc, sentences, k, size, ov, min_size),
                   sentences, k + 1, size, ov, min_size)

\* _build_chunks_from_sentences (lines 375-412); the result with the number
\* of chunks dropped as too short.
build_chunks_from_sentences(sentences, size, ov, min_size) ==
    LET acc == BuildLoop([chunks |-> <<>>, current_chunk |-> <<>>,
                          current_size |-> 0, dropped |-> 0],
                         sentences, 1, size, ov, min_size)
        chunk_text == Join(ItemTexts(acc.current_chunk))
    IN IF acc.current_chunk = <<>> THEN [chunks |-> acc.chunks, dropped |-> acc.dropped]
       ELSE IF KeepChunk(chunk_text, min_size)
       THEN [chunks |-> Append(acc.chunks, MkChunk(acc.current_chunk)),
             dropped |-> acc.dropped]
       ELSE [chunks |-> acc.chunks, dropped |-> acc.dropped + 1]

\* Lines 363-370: re.split(r'([.!?]\s+)', text) with each delimiter paired
\* back onto the text before it.  The first match is the leftmost terminal
\* mark followed by whitespace; it takes the whole run of whitespace.
FirstBoundary(text) ==
    LET hits == {p \in 1..(Len(text) - 1) :
                    IsTerminal(text[p]) /\ IsSpace(text[p + 1])}
    IN IF hits = {} THEN 0
       ELSE CHOOSE p \in hits : \A q \in hits : p <= q

RECURSIVE SpaceRunEnd(_, _)
SpaceRunEnd(text, p) ==
    IF p < Len(text) /\ IsSpace(text[p + 1]) THEN SpaceRunEnd(text, p + 1) ELSE p

RECURSIVE regex_sentences(_)
regex_sentences(text) ==
    LET p == FirstBoundary(text)
    IN IF p = 0 THEN <<text>>
       ELSE LET q == SpaceRunEnd(text, p)
            IN <<SubSeq(text, 1, q)>> \o regex_sentences(SubSeq(text, q + 1, Len(text)))

\* The sentence lists an external tokenizer (spaCy's doc.sents, NLTK's
\* sent_tokenize) may return for a text: some division of it into consecutive
\* pieces.
Segmentations(text) ==
    {LET bounds == cuts \cup {0, Len(text)}
         Next(a) == CHOOSE b \in bounds : b > a /\ \A c \in bounds : c > a => b <= c
         RECURSIVE Pieces(_)
         Pieces(a) == IF a >= Len(text) THEN <<>>
                      ELSE <<SubSeq(text, a + 1, Next(a))>> \o Pieces(Next(a))
     IN Pieces(0) : cuts \in SUBSET (1..(Len(text) - 1))}

\* A slip of line 300: only the empty text returns early.
TooShortEmptyOnly(text, min_size) == text = <<>>

\* Line 300: if not text or len(text.strip()) < min_chunk_size
TooShort(text, min_size) == text = <<>> \/ Len(Strip(text)) < min_size

ChunkStartIn(envs) ==
    /\ ck_env \in envs
    /\ ck_tried = <<>>
    /\ ck_text \in TextsUpTo(MaxLen)
    /\ chunk_size \in 1..MaxChunkSize
    /\ overlap \in 0..MaxOverlap
    /\ min_chunk_size \in 0..MaxMinSize
    /\ respect_sentence \in BOOLEAN
    /\ ck_pc = "call"
    /\ ck_strategy = "none"
    /\ ck_sentences = <<>>
    /\ ck_start = 0
    /\ ck_end = 0
    /\ ck_iter = 0
    /\ ck_dropped = 0
    /\ chunks = <<>>

\* The installations in which no strategy raises: spaCy with its models,
\* NLTK alone, neither.
SoundEnvs == {Env(TRUE, TRUE, {}), Env(FALSE, TRUE, {}), Env(FALSE, FALSE, {})}

ChunkStart == ChunkStartIn(SoundEnvs)

\* Lines 300-301: empty or sub-minimum input: return [].
ChunkTooShort ==
    /\ ck_pc = "call"
    /\ TooShort(ck_text, min_chunk_size)
    /\ ck_pc' = "done"
    /\ ck_strategy' = "short"
    /\ chunks' = <<>>
    /\ UNCHANGED <<ck_text, chunk_size, overlap, min_chunk_size, respect_sentence,
                   ck_sentences, ck_start, ck_end, ck_iter, ck_dropped, ck_env,
                   ck_tried>>
    /\ UNCHANGED nonChunkVars

\* Lines 303-305, 417-421: respect_sentence is false: _chunk_by_chars is
\* entered (start = 0 < text_len, as the text is not empty).
EnterChars ==
    /\ ck_pc = "call"
    /\ ~TooShort(ck_text, min_chunk_size)
    /\ ~respect_sentence
    /\ ck_pc' = "chars"
    /\ ck_strategy' = "chars"
    /\ ck_start' = 0
    /\ chunks' = <<>>
    /\ UNCHANGED <<ck_text, chunk_size, overlap, min_chunk_size, respect_sentence,
                   ck_sentences, ck_end, ck_iter, ck_dropped, ck_env, ck_tried>>
    /\ UNCHANGED nonChunkVars

\* Lines 421-432: one iteration of the while loop of _chunk_by_chars, with
\* the test that ends or continues it.
CharsStep ==
    /\ ck_pc = "chars"
    /\ ck_iter < MaxLen + MaxOverlap + 2
    /\ LET text_len == Len(ck_text)
           end == Min2(ck_start + chunk_size, text_len)
           chunk == Strip(Slice(ck_text, ck_start, end))
           start == end - overlap
       IN /\ chunks' = IF KeepChunk(chunk, min_chunk_size)
                       THEN Append(chunks, [text |-> chunk, parts |-> <<>>])
                       ELSE chunks
          /\ ck_dropped' = IF KeepChunk(chunk, min_chunk_size)
                           THEN ck_dropped ELSE ck_dropped + 1
          /\ ck_start' = start
          /\ ck_end' = end
          /\ ck_iter' = ck_iter + 1
          /\ ck_pc' = IF start <= 0 \/ ~(start < text_len) THEN "done" ELSE "chars"
    /\ UNCHANGED <<ck_text, chunk_size, overlap, min_chunk_size, respect_sentence,
                   ck_strategy, ck_sentences, ck_env, ck_tried>>
    /\ UNCHANGED nonChunkVars

\* One attempt of a strategy and how it ended.
Attempt(strategy, env) ==
    [strategy |-> strategy, raised |-> strategy \in env.raises]

\* Lines 351-358: _chunk_by_nltk: sent_tokenize and chunk assembly; when
\* they raise, the regex splitter is called from the handler.
NltkAttempts(env) ==
    IF "nltk" \in env.raises
    THEN <<Attempt("nltk", env), Attempt("regex", env)>>
    ELSE <<Attempt("nltk", env)>>

\* Lines 307-331: the strategies smart_chunk_text_enhanced attempts, in
\* order, up to the first that returns: spaCy when it is available (lines
\* 308-321), NLTK when it is (lines 324-328), then the regex splitter (line
\* 331), which is outside any try.
Attempts(env) ==
    LET Returned(as) == as # <<>> /\ ~as[Len(as)].raised
        a1 == IF env.spacy THEN <<Attempt("spacy", env)>> ELSE <<>>
        a2 == IF Returned(a1) \/ ~env.nltk THEN a1 ELSE a1 \o NltkAttempts(env)
    IN IF Returned(a2) THEN a2 ELSE a2 \o <<Attempt("regex", env)>>

\* Lines 334-372: the sentence lists a strategy may hand to chunk assembly.
SentencesOf(strategy, text) ==
    IF strategy = "regex" THEN {regex_sentences(text)} ELSE Segmentations(text)

\* Lines 307-331, 334-372: respect_sentence is true: the first strategy of
\* the ladder that is available and does not raise gives the sentences, and
\* chunk assembly builds the result; when the regex splitter of line 331
\* raises, so does the call.
ChunkBySentences ==
    /\ ck_pc = "call"
    /\ ~TooShort(ck_text, min_chunk_size)
    /\ respect_sentence
    /\ LET as == Attempts(ck_env)
           last == as[Len(as)]
       IN /\ ck_tried' = [k \in 1..Len(as) |-> as[k].strategy]
          /\ IF last.raised
             THEN /\ ck_pc' = "raised"
                  /\ UNCHANGED <<ck_strategy, ck_sentences, chunks, ck_dropped>>
             ELSE /\ ck_pc' = "done"
                  /\ ck_strategy' = last.strategy
                  /\ \E sentences \in SentencesOf(last.strategy, ck_text) :
                        LET r == build_chunks_from_sentences(
                                    sentences, chunk_size, overlap,
                                    min_chunk_size)
                        IN /\ ck_sentences' = sentences
                           /\ chunks' = r.chunks
                           /\ ck_dropped' = r.dropped
    /\ UNCHANGED <<ck_text, chunk_size, overlap, min_chunk_size, respect_sentence,
                   ck_start, ck_end, ck_iter, ck_env>>
    /\ UNCHANGED nonChunkVars

ChunkNext ==
    \/ ChunkTooShort
    \/ EnterChars
    \/ CharsStep
    \/ ChunkBySentences

ChunkInit == ChunkStart /\ EmbedIdle /\ IngestIdle /\ LoadIdle /\ UploadIdle
    /\ CleanIdle

SpecChunk == ChunkInit /\ [][ChunkNext]_vars

-----------------------------------------------------------------------------
\* Claims about the chunking engine (checked under SpecChunk)

\* C6: fixed-width chunking stops once the window end has reached the text
\* length: the while loop is not entered again after such a window.
C6_StopsAtTextEnd ==
    (ck_pc = "chars" /\ ck_iter > 0) => ck_end < Len(ck_text)

\* C7: every chunk of the result, in sentence mode and in fixed-width mode,
\* has length >= min_chunk_size, except possibly when there is exactly one
\* chunk.
C7_MinLength ==
    Len(chunks) # 1 =>
        \A k \in 1..Len(chunks) : Len(chunks[k].text) >= min_chunk_size

\* C7 witness: a finished sentence-mode call that kept several chunks and
\* dropped one as too short.
C7_Witness ==
    /\ ck_pc = "done"
    /\ respect_sentence
    /\ Len(chunks) >= 2
    /\ ck_dropped > 0
    /\ min_chunk_size > 1

\* C8: a text that is empty or shorter than min_chunk_size gives the empty
\* result, and the call returns (no error), whatever the other arguments.
C8_ShortInputEmpty ==
    (ck_text = <<>> \/ Len(ck_text) < min_chunk_size) =>
        /\ ck_pc \in {"call", "done"}
        /\ ck_pc = "call" => ENABLED ChunkTooShort
        /\ ck_pc = "done" => chunks = <<>>

\* C8 witness: a finished call on a non-empty text shorter than the minimum,
\* with several characters.
C8_Witness ==
    /\ ck_pc = "done"
    /\ Len(ck_text) >= 2
    /\ Len(ck_text) < min_chunk_size
    /\ respect_sentence
    /\ overlap > 0

\* The sentences of the chunks' non-overlap regions, in output order.
RECURSIVE AllParts(_)
AllParts(cs) == IF cs = <<>> THEN <<>> ELSE Head(cs).parts \o AllParts(Tail(cs))

\* C9: reading the non-overlap regions of the chunks in output order gives
\* the input sentences in their original order, none of them twice.
C9_SentenceOrder ==
    LET ps == AllParts(chunks)
    IN /\ \A m \in 1..Len(ps) : ps[m] \in 1..Len(ck_sentences)
       /\ \A m, n \in 1..Len(ps) : m < n => ps[m] < ps[n]

\* C9 witness: a sentence-mode result of several chunks with overlap, a
\* dropped chunk, and at least three sentences in the non-overlap regions.
C9_Witness ==
    /\ ck_pc = "done"
    /\ respect_sentence
    /\ overlap > 0
    /\ Len(chunks) >= 2
    /\ ck_dropped > 0
    /\ Len(AllParts(chunks)) >= 3

\* A call that went through chunk assembly has returned.
SentenceMode == ck_pc = "done" /\ ck_strategy \in {"spacy", "nltk", "regex"}

\* The sentences handed to chunk assembly that are longer than chunk_size.
LongSentences ==
    {k \in 1..Len(ck_sentences) : Len(Strip(ck_sentences[k])) > chunk_size}

\* The chunks of the result that hold sentence k outside their overlap text.
HoldersOf(k) ==
    {c \in 1..Len(chunks) : \E m \in 1..Len(chunks[c].parts) : chunks[c].parts[m] = k}

EndsWith(text, tail) ==
    /\ Len(tail) <= Len(text)
    /\ SubSeq(text, Len(text) - Len(tail) + 1, Len(text)) = tail

\* Chunk c is the chunk of sentence k alone: apart from the overlap text
\* carried over from the chunk before, it holds sentence k, whole, and no
\* other sentence.
OwnChunk(c, k) ==
    /\ chunks[c].parts = <<k>>
    /\ EndsWith(chunks[c].text, Strip(ck_sentences[k]))

\* C26 as stated: every sentence longer than chunk_size is in exactly one
\* chunk of the result, whole, and that chunk holds no other sentence.
C26_LongSentenceOwnChunk ==
    SentenceMode =>
       \A k \in LongSentences :
          \E c \in 1..Len(chunks) : HoldersOf(k) = {c} /\ OwnChunk(c, k)

\* C26 amended: a sentence longer than chunk_size is never split nor joined
\* with another sentence: a chunk that holds it is its own chunk, there is
\* at most one, and there is one when the sentence is at least
\* min_chunk_size long (its chunk is dropped like any other when its text
\* is shorter than min_chunk_size).
C26_LongSentenceOwnChunkOrDropped ==
    SentenceMode =>
       \A k \in LongSentences :
          /\ \A c \in HoldersOf(k) : HoldersOf(k) = {c} /\ OwnChunk(c, k)
          /\ Len(Strip(ck_sentences[k])) >= min_chunk_size => HoldersOf(k) # {}

\* C26 witness: a result in which a sentence longer than chunk_size stands
\* between two others, in a chunk of its own that begins with overlap text.
C26_Witness ==
    /\ SentenceMode
    /\ overlap > 0
    /\ \E k \in LongSentences :
          /\ 1 < k /\ k < Len(ck_sentences)
          /\ \E c \in HoldersOf(k) :
                /\ OwnChunk(c, k)
                /\ Len(chunks[c].text) > Len(Strip(ck_sentences[k]))
          /\ HoldersOf(k - 1) # {}
          /\ HoldersOf(k + 1) # {}

StartsWith(text, head) ==
    /\ Len(head) <= Len(text)
    /\ SubSeq(text, 1, Len(head)) = head

\* The state of chunk assembly (chunks, current_chunk, current_size) after the
\* first k sentences of the list it was handed.
AccAt(k) ==
    BuildLoop([chunks |-> <<>>, current_chunk |-> <<>>, current_size |-> 0,
               dropped |-> 0],
              SubSeq(ck_sentences, 1, k), 1, chunk_size, overlap, min_chunk_size)

\* The sentences whose addition overflows a non-empty current chunk.
OverflowSentences ==
    {k \in 1..Len(ck_sentences) :
        /\ Strip(ck_sentences[k]) # <<>>
        /\ AccAt(k - 1).current_chunk # <<>>
        /\ AccAt(k - 1).current_size + Len(Strip(ck_sentences[k])) > chunk_size}

\* The text of the current chunk when sentence k arrives.
ClosedText(k) == Join(ItemTexts(AccAt(k - 1).current_chunk))

\* The last n characters of a text, the whole text when it has no more.
Trailing(text, n) ==
    IF Len(text) <= n THEN text ELSE SubSeq(text, Len(text) - n + 1, Len(text))

\* The texts the chunk after a closed one is to start with.
ExpectedSeed(k) ==
    (IF overlap = 0 THEN <<>> ELSE <<Trailing(ClosedText(k), overlap)>>)
        \o <<Strip(ck_sentences[k])>>

ChunkTextsOf(cs) == [n \in 1..Len(cs) |-> cs[n].text]

\* C28: when a sentence overflows a non-empty current chunk, that chunk is
\* closed (appended to the result if its text has at least min_chunk_size
\* characters, dropped otherwise) and the next chunk starts with the trailing
\* overlap characters of the closed text (the whole text if it is not longer
\* than overlap, nothing if overlap is 0) followed by the sentence, whether
\* the closed chunk was kept or dropped; a chunk of the result that begins
\* with such a sentence begins with that seed.
C28_OverflowSeedsNextChunk ==
    SentenceMode =>
       \A k \in OverflowSentences :
          /\ ChunkTextsOf(AccAt(k).chunks) =
                IF Len(ClosedText(k)) >= min_chunk_size
                THEN Append(ChunkTextsOf(AccAt(k - 1).chunks), ClosedText(k))
                ELSE ChunkTextsOf(AccAt(k - 1).chunks)
          /\ ItemTexts(AccAt(k).current_chunk) = ExpectedSeed(k)
          /\ \A c \in HoldersOf(k) :
                /\ chunks[c].parts[1] = k
                /\ StartsWith(chunks[c].text, Join(ExpectedSeed(k)))

\* C28 witness: a sentence overflowed a chunk that was dropped as too short
\* and whose text is longer than the overlap, and the chunk seeded with the
\* trailing characters and the sentence is in the result.
C28_Witness ==
    /\ SentenceMode
    /\ overlap > 0
    /\ \E k \in OverflowSentences :
          /\ Len(ClosedText(k)) < min_chunk_size
          /\ Len(ClosedText(k)) > overlap
          /\ HoldersOf(k) # {}
          /\ ck_dropped > 0

\* C39: in sentence mode a chunk of the result is at most chunk_size
\* characters long, separators included, unless its content outside the
\* overlap text is a single sentence.
C39_ChunkWithinSize ==
    SentenceMode =>
       \A c \in 1..Len(chunks) :
          Len(chunks[c].parts) # 1 => Len(chunks[c].text) <= chunk_size

\* The text argument of the abbreviation scenario, a shorter form of the
\* first test case of compare_versions.py (line 15):
\* "Dr. Smith works at OpenAI. He said hello. The end."
ScenarioText ==
    <<"D", "r", ".", " ", "S", "m", "i", "t", "h", " ", "w", "o", "r",
      "k", "s", " ", "a", "t", " ", "O", "p", "e", "n", "A", "I", ".",
      " ", "H", "e", " ", "s", "a", "i", "d", " ", "h", "e", "l", "l",
      "o", ".", " ", "T", "h", "e", " ", "e", "n", "d", ".">>

\* "Dr."
AbbreviationText == <<"D", "r", ".">>

\* "Smith"
NameText == <<"S", "m", "i", "t", "h">>

\* The parameters of the scenario: chunk_size=20, overlap=5, min_chunk_size=5.
ScenarioSizes == [chunk_size |-> 20, overlap |-> 5, min_chunk_size |-> 5]

\* The scenario and the calls next to it: the same text with each parameter
\* up to MaxSlack away, in an installation with neither spaCy nor NLTK (the
\* regex splitter is the strategy).
ScenarioStart ==
    /\ ck_env = Env(FALSE, FALSE, {})
    /\ ck_tried = <<>>
    /\ ck_text = ScenarioText
    /\ chunk_size \in (ScenarioSizes.chunk_size - MaxSlack)..
                        (ScenarioSizes.chunk_size + MaxSlack)
    /\ overlap \in (ScenarioSizes.overlap - MaxSlack)..
                     (ScenarioSizes.overlap + MaxSlack)
    /\ min_chunk_size \in (ScenarioSizes.min_chunk_size - MaxSlack)..
                            (ScenarioSizes.min_chunk_size + MaxSlack)
    /\ respect_sentence = TRUE
    /\ ck_pc = "call"
    /\ ck_strategy = "none"
    /\ ck_sentences = <<>>
    /\ ck_start = 0
    /\ ck_end = 0
    /\ ck_iter = 0
    /\ ck_dropped = 0
    /\ chunks = <<>>

ScenarioInit == ScenarioStart /\ EmbedIdle /\ IngestIdle /\ LoadIdle
    /\ UploadIdle
    /\ CleanIdle

SpecScenario == ScenarioInit /\ [][ChunkBySentences]_vars

Contains(text, part) ==
    \E p \in 1..(Len(text) - Len(part) + 1) :
       SubSeq(text, p, p + Len(part) - 1) = part

\* The call of the scenario has returned.
ScenarioDone ==
    /\ ck_pc = "done"
    /\ ck_strategy = "regex"
    /\ chunk_size = ScenarioSizes.chunk_size
    /\ overlap = ScenarioSizes.overlap
    /\ min_chunk_size = ScenarioSizes.min_chunk_size

\* C27: in the result of the scenario no chunk ends with "Dr." while the
\* next begins with "Smith", one chunk holds "Dr. Smith" together, and no
\* chunk is shorter than 5 characters.
C27_AbbreviationKept ==
    ScenarioDone =>
       /\ \A c \in 1..(Len(chunks) - 1) :
             ~(/\ EndsWith(chunks[c].text, AbbreviationText)
               /\ StartsWith(chunks[c + 1].text, NameText))
       /\ \E c \in 1..Len(chunks) :
             Contains(chunks[c].text, AbbreviationText \o <<" ">> \o NameText)
       /\ \A c \in 1..Len(chunks) : Len(chunks[c].text) >= 5

\* C27 witness: the scenario has returned its three chunks, the regex
\* splitter having cut after "Dr." and the chunk "Dr." having been dropped.
C27_Witness ==
    /\ ScenarioDone
    /\ ck_sentences[1] = AbbreviationText \o <<" ">>
    /\ ck_dropped = 1
    /\ Len(chunks) = 3
    /\ StartsWith(chunks[1].text, AbbreviationText \o <<" ">> \o NameText)

\* Every installation: each library absent, working, or raising on the text;
\* the regex splitter working or raising.
AllEnvs ==
    {env \in [spacy : BOOLEAN, nltk : BOOLEAN,
              raises : SUBSET {"spacy", "nltk", "regex"}] :
        /\ "spacy" \in env.raises => env.spacy
        /\ "nltk" \in env.raises => env.nltk}

LadderInit == ChunkStartIn(AllEnvs) /\ EmbedIdle /\ IngestIdle /\ LoadIdle
    /\ UploadIdle
    /\ CleanIdle

SpecLadder == LadderInit /\ [][ChunkNext]_vars

\* The place of a strategy in the ladder the claim gives.
Rank(strategy) ==
    CASE strategy = "spacy" -> 1
      [] strategy = "nltk" -> 2
      [] strategy = "regex" -> 3
      [] strategy = "chars" -> 4

Available(strategy) ==
    CASE strategy = "spacy" -> ck_env.spacy
      [] strategy = "nltk" -> ck_env.nltk
      [] OTHER -> TRUE

\* The attempts of a call are in ladder order, each made only after every
\* strategy before it in the ladder was unavailable or raised, and the
\* result is that of the first attempt that did not raise.
LadderOrder ==
    (ck_pc \in {"done", "raised"} /\ ck_tried # <<>>) =>
       /\ \A k, m \in 1..Len(ck_tried) :
             k < m => Rank(ck_tried[k]) <= Rank(ck_tried[m])
       /\ \A k \in 1..Len(ck_tried) :
          \A e \in {"spacy", "nltk", "regex"} :
             Rank(e) < Rank(ck_tried[k]) =>
                \/ ~Available(e)
                \/ \E m \in 1..(k - 1) : ck_tried[m] = e /\ e \in ck_env.raises
       /\ \A k \in 1..(Len(ck_tried) - 1) : ck_tried[k] \in ck_env.raises
       /\ ck_pc = "done" =>
             /\ ck_strategy = ck_tried[Len(ck_tried)]
             /\ ck_strategy \notin ck_env.raises

\* C25: with respect_sentence true the strategies are attempted in ladder
\* order, each only after the ones before it were unavailable or raised,
\* the first that does not raise gives the result, and fixed-width
\* windowing is the last of them: the call does not raise when the regex
\* splitter does.
C25_LadderEndsInFixedWidth ==
    /\ LadderOrder
    /\ ck_pc # "raised"
    /\ (ck_pc = "done" /\ ck_tried # <<>> /\ "regex" \in ck_env.raises
           /\ \A e \in {"spacy", "nltk"} : ~Available(e) \/ e \in ck_env.raises)
          => ck_strategy = "chars"

-----------------------------------------------------------------------------
\* Ingestion orchestrator

FileName(file) == <<file.stem, file.ext>>

\* A slip of line 305: a fresh identifier in every run (uuid.uuid4()).
PointIdFresh(doc_id) == <<"uuid4", doc_id, ig_run>>

\* Line 305: str(uuid.uuid5(uuid.NAMESPACE_DNS, doc['id'])): a hash of the
\* id string alone; distinct id strings give distinct point ids.
PointId(doc_id) == <<"uuid5", doc_id>>

\* A slip of lines 201-209: the chunks numbered from 1 (enumerate(chunks, 1)).
BuildDocumentsFromOne(file, fidx) ==
    [i1 \in 1..file.n |->
        [id |-> DocId(file, i1),
         text |-> <<file.content, i1 - 1>>,
         source |-> FileName(file),
         file |-> fidx,
         chunk_index |-> i1,
         total_chunks |-> file.n,
         vector |-> NoVector]]

\* Lines 199-214: the documents process_document builds for a file whose
\* chunking gave file.n chunks.
BuildDocuments(file, fidx) ==
    [i1 \in 1..file.n |->
        [id |-> DocId(file, i1 - 1),
         text |-> <<file.content, i1 - 1>>,
         source |-> FileName(file),
         file |-> fidx,
         chunk_index |-> i1 - 1,
         total_chunks |-> file.n,
         vector |-> NoVector]]

\* Lines 369-374: the file batches of the directory.
file_batches == batch_iterator(ig_files, file_batch_size)

\* What embed_batch (azure_embedding.py lines 143-225) may return for a list
\* of texts: per text its embedding or a placeholder.
EmbedBatchResults(ts) ==
    {[k \in 1..Len(ts) |-> IF k \in failed THEN ZeroVector(ts[k]) ELSE Emb(ts[k])] :
        failed \in SUBSET (1..Len(ts))}

\* DiskCache.get (helpers.py lines 288-301): the value pickled in the entry
\* file of the key; None when there is no file or it cannot be loaded.
CacheGetIn(files, text) ==
    LET entry == files[get_key(text)]
    IN IF entry.kind = "pkl" THEN pickle_load(entry) ELSE NoVector

CacheGet(text) == CacheGetIn(cache, text)

\* Lines 278-280: the cache entries embed_documents writes for the texts
\* embedded in this call (DiskCache.set, helpers.py lines 303-312), the
\* cache directory being writable.
CacheAfter(misses, embeddings) ==
    [key \in DOMAIN cache |->
        LET ks == {k \in 1..Len(misses) :
                      get_key(all_documents[misses[k]].text) = key}
        IN IF ks = {} THEN cache[key]
           ELSE pickle_dump(embeddings[CHOOSE k \in ks : \A m \in ks : m <= k])]

\* The directories of the model: up to MaxFiles files of distinct names, the
\* .txt files first (line 366), each with a content and a number of chunks.
Directories ==
    LET order == <<[stem |-> "a", ext |-> "txt"], [stem |-> "b", ext |-> "txt"],
                   [stem |-> "a", ext |-> "md"]>>
        Pick(sel) ==
            LET RECURSIVE P(_)
                P(k) == IF k > Len(order) THEN <<>>
                        ELSE (IF order[k] \in sel THEN <<order[k]>> ELSE <<>>)
                             \o P(k + 1)
            IN P(1)
    IN {Pick(sel) : sel \in {x \in SUBSET FileNames :
                                Cardinality(x) \in 1..MaxFiles}}

\* The files of directory d as the run finds them: the files of empty are
\* 0-byte files (content "", no chunk), file k of the others gives ns[k]
\* chunks.
FilesOf(d, ns, empty) ==
    [k \in 1..Len(d) |->
        [stem |-> d[k].stem, ext |-> d[k].ext,
         content |-> IF k \in empty THEN "" ELSE ContentOf(d[k]),
         n |-> IF k \in empty THEN 0 ELSE ns[k]]]

\* DocumentIngester.__init__ is entered (main, lines 466-470) for a directory
\* and settings among configs; the cache directory is empty, caching is
\* enabled (settings.py line 100).  With zero_byte the directory may hold
\* 0-byte files.
IngestStartWith(configs, zero_byte) ==
    /\ ig_config \in configs
    /\ \E d \in Directories :
       \E ns \in [1..Len(d) -> 0..MaxChunks] :
       \E empty \in (IF zero_byte THEN SUBSET {k \in 1..Len(d) : ns[k] = 0}
                     ELSE {{}}) :
          ig_files = FilesOf(d, ns, empty)
    /\ skip_errors \in BOOLEAN
    /\ file_batch_size \in 1..MaxFileBatch
    /\ ig_run = 1
    /\ ig_pc = "init"
    /\ ig_fb = 1
    /\ ig_k = 1
    /\ all_documents = <<>>
    /\ cache = [key \in {get_key(t) : t \in ChunkTexts} |-> NoVector]
    /\ store = {}
    /\ built = [r \in Runs |-> [f \in 1..Len(ig_files) |-> {}]]
    /\ faults = {}
    /\ metrics = ZeroMetrics
    /\ embed_call = NoEmbedCall
    /\ cache_ref = <<>>
    /\ cache_out = NoCacheOp
    /\ sigint = "none"

\* The same for a directory of files that all have content.
IngestStart(configs) == IngestStartWith(configs, FALSE)

\* __init__ returns (lines 43-112): the store answers get_collections.  It
\* does not call Settings.validate; a store port outside 1..65535 cannot be
\* connected to.
InitReturns ==
    /\ ig_pc = "init"
    /\ ig_config.port \in 1..65535
    /\ ig_pc' = "process"
    /\ UNCHANGED <<ig_files, skip_errors, file_batch_size, ig_run, ig_fb, ig_k,
                   all_documents, cache, store, built, faults, metrics,
                   embed_call>>
    /\ UNCHANGED ingestFixed
    /\ UNCHANGED nonIngestVars

\* __init__ raises (the store cannot be reached, the client's environment
\* variables are missing): main prints the failure and exits (lines 466-470).
InitRaises ==
    /\ ig_pc = "init"
    /\ ig_pc' = "init_failed"
    /\ UNCHANGED <<ig_files, skip_errors, file_batch_size, ig_run, ig_fb, ig_k,
                   all_documents, cache, store, built, faults, metrics,
                   embed_call>>
    /\ UNCHANGED ingestFixed
    /\ UNCHANGED nonIngestVars

\* Index in ig_files of file k of file batch fb.
FileIndex(fb, k) == (fb - 1) * file_batch_size + k

\* A slip of lines 403-405, 412-414: the loop is left (break for continue).
NextFileBatchEnds ==
    /\ ig_fb' = ig_fb + 1
    /\ ig_k' = 1
    /\ all_documents' = <<>>
    /\ ig_pc' = "done"

\* Lines 384-396, 416-424: the loop goes on to the next file batch, or the
\* run ends with the statistics.
NextFileBatch ==
    /\ ig_fb' = ig_fb + 1
    /\ ig_k' = 1
    /\ all_documents' = <<>>
    /\ ig_pc' = IF ig_fb + 1 > Len(file_batches) THEN "done" ELSE "process"

\* Lines 391-396: after a file of the batch is processed into docs.
AfterDocument(docs) ==
    IF ig_k < Len(file_batches[ig_fb])
    THEN /\ all_documents' = all_documents \o docs
         /\ ig_k' = ig_k + 1
         /\ UNCHANGED <<ig_pc, ig_fb>>
    ELSE IF all_documents \o docs = <<>>
    THEN NextFileBatch
    ELSE /\ all_documents' = all_documents \o docs
         /\ ig_pc' = "embed"
         /\ UNCHANGED <<ig_fb, ig_k>>

\* A slip of lines 160-162: a file without content counts as processed.
DocumentMetricsAlways(docs) ==
    increment(increment(metrics, "documents_processed", 1),
              "chunks_created", Len(docs))

\* Lines 160-162, 195-197, 216-218: the counters after process_document
\* returns docs; the two early returns count nothing.
DocumentMetrics(docs) ==
    IF docs = <<>> THEN metrics
    ELSE increment(increment(metrics, "documents_processed", 1),
                   "chunks_created", Len(docs))

\* Lines 156-220: what process_document returns for a file it loads: nothing
\* for a file without content (lines 160-162) or whose chunking gives
\* nothing (lines 195-197).
DocumentsOf(file, fidx) ==
    IF file.content = "" THEN <<>> ELSE BuildDocuments(file, fidx)

\* process_document returns the documents of the file (lines 156-220); none
\* for an empty or too short file or when chunking gives nothing.
ProcessDocumentReturns ==
    /\ ig_pc = "process"
    /\ LET fidx == FileIndex(ig_fb, ig_k)
           docs == DocumentsOf(ig_files[fidx], fidx)
       IN /\ AfterDocument(docs)
          /\ metrics' = DocumentMetrics(docs)
    /\ UNCHANGED <<ig_files, skip_errors, file_batch_size, ig_run, cache, store,
                   built, faults, embed_call>>
    /\ UNCHANGED ingestFixed
    /\ UNCHANGED nonIngestVars

\* A slip of line 227: the chunks made before the failure are returned.
FailedDocumentsKept(file, fidx) == BuildDocuments(file, fidx)

\* Line 227: what process_document returns for a file it failed on.
FailedDocuments(file, fidx) == <<>>

\* process_document fails inside (lines 222-227): skipped with skip_errors,
\* re-raised otherwise.
ProcessDocumentRaises ==
    /\ ig_pc = "process"
    /\ LET fidx == FileIndex(ig_fb, ig_k)
       IN /\ IF skip_errors
             THEN AfterDocument(FailedDocuments(ig_files[fidx], fidx))
             ELSE /\ ig_pc' = "aborted"
                  /\ UNCHANGED <<ig_fb, ig_k, all_documents>>
          /\ faults' = faults \cup {<<"document", fidx>>}
    /\ metrics' = increment(metrics, "documents_failed", 1)
    /\ UNCHANGED <<ig_files, skip_errors, file_batch_size, ig_run, cache, store,
                   built, embed_call>>
    /\ UNCHANGED ingestFixed
    /\ UNCHANGED nonIngestVars

\* Lines 244-255: the indices of the documents with no cache entry.
CacheMisses ==
    LET RECURSIVE M(_)
        M(k) == IF k > Len(all_documents) THEN <<>>
                ELSE (IF CacheGet(all_documents[k].text) = NoVector
                      THEN <<k>> ELSE <<>>) \o M(k + 1)
    IN M(1)

\* A slip of line 255: a cached chunk is sent to the embedding client too.
TextsToEmbedAll == [k \in 1..Len(all_documents) |-> k]

\* Lines 241-255: texts_to_embed, as the indices of the documents in it.
TextsToEmbed == CacheMisses

\* Lines 244-253: cached_indices.
CachedIndices ==
    {k \in 1..Len(all_documents) : CacheGet(all_documents[k].text) # NoVector}

\* Lines 257-259: the cache hits are counted before anything is embedded.
CountHits(m) ==
    IF CachedIndices = {} THEN m
    ELSE increment(m, "cache_hits", Cardinality(CachedIndices))

\* embed_documents returns (lines 229-288): cache hits take the cached vector,
\* the misses go to embed_batch and its vectors are assigned and cached.
EmbedDocumentsReturns ==
    /\ ig_pc = "embed"
    /\ LET misses == TextsToEmbed
           ts == [k \in 1..Len(misses) |-> all_documents[misses[k]].text]
       IN \E embeddings \in EmbedBatchResults(ts) :
             /\ all_documents' =
                   [k \in 1..Len(all_documents) |->
                       LET ms == {m \in 1..Len(misses) : misses[m] = k}
                       IN [all_documents[k] EXCEPT !.vector =
                              IF ms = {} THEN CacheGet(all_documents[k].text)
                              ELSE embeddings[CHOOSE m \in ms : TRUE]]]
             /\ cache' = CacheAfter(misses, embeddings)
             /\ metrics' =
                   IF misses = <<>> THEN CountHits(metrics)
                   ELSE increment(CountHits(metrics), "embeddings_generated",
                                  Len(embeddings))
             /\ embed_call' = [called |-> misses # <<>>, sent |-> ts,
                               hits |-> CachedIndices]
    /\ ig_pc' = "upsert"
    /\ UNCHANGED <<ig_files, skip_errors, file_batch_size, ig_run, ig_fb, ig_k,
                   store, built, faults>>
    /\ UNCHANGED ingestFixed
    /\ UNCHANGED nonIngestVars

\* embed_batch raises (lines 266-270, 282-284, 399-405) when it has obtained
\* the vectors of the first `done` texts it was given, in its earlier
\* sub-batches: they are in its local list, which is lost with the call.  The
\* file batch is skipped with skip_errors, the run aborted otherwise.
\* Nothing is cached: lines 273-278 are reached only when embed_batch returns.
EmbedDocumentsRaisesAt(done) ==
    /\ ig_pc = "embed"
    /\ TextsToEmbed # <<>>
    /\ done \in 0..(Len(TextsToEmbed) - 1)
    /\ IF skip_errors THEN NextFileBatch
       ELSE /\ ig_pc' = "aborted"
            /\ UNCHANGED <<ig_fb, ig_k, all_documents>>
    /\ faults' = faults \cup {<<"embed", ig_fb>>}
    /\ metrics' = CountHits(metrics)
    /\ UNCHANGED <<ig_files, skip_errors, file_batch_size, ig_run, cache, store,
                   built, embed_call>>
    /\ UNCHANGED ingestFixed
    /\ UNCHANGED nonIngestVars

\* embed_documents fails: embed_batch raised in its first sub-batch or in a
\* later one.
EmbedDocumentsRaises ==
    \E done \in 0..MaxChunks * MaxFiles : EmbedDocumentsRaisesAt(done)

\* Lines 301-312: the points built from the documents.
BuildPoints(documents) ==
    [k \in 1..Len(documents) |->
        [id |-> PointId(documents[k].id),
         source |-> documents[k].source,
         file |-> documents[k].file]]

\* The store after upsert calls for the first n of the points: a point
\* replaces the record of its id (of two points of one id the later stays).
StoreAfter(points, n) ==
    {r \in store : \A k \in 1..n : points[k].id # r.id}
    \cup {[id |-> points[k].id, source |-> points[k].source] :
            k \in {m \in 1..n : \A m2 \in (m + 1)..n : points[m2].id # points[m].id}}

BuiltAfter(points) ==
    [built EXCEPT ![ig_run] =
        [f \in DOMAIN built[ig_run] |->
            built[ig_run][f] \cup
                {points[k].id : k \in {m \in 1..Len(points) : points[m].file = f}}]]

\* upsert_to_qdrant uploads every batch of UpsertBatchSize points (lines
\* 299-343).
UpsertReturns ==
    /\ ig_pc = "upsert"
    /\ LET points == BuildPoints(all_documents)
       IN /\ store' = StoreAfter(points, Len(points))
          /\ built' = BuiltAfter(points)
    /\ NextFileBatch
    /\ metrics' = increment(metrics, "vectors_upserted",
                            Len(BuildPoints(all_documents)))
    /\ embed_call' = NoEmbedCall
    /\ UNCHANGED <<ig_files, skip_errors, file_batch_size, ig_run, cache,
                   faults>>
    /\ UNCHANGED ingestFixed
    /\ UNCHANGED nonIngestVars

\* An upsert call fails after okBatches upload batches went through (lines
\* 345-347, 408-414).
UpsertRaises ==
    /\ ig_pc = "upsert"
    /\ LET points == BuildPoints(all_documents)
       IN \E okBatches \in 0..(NumBatches(points, UpsertBatchSize) - 1) :
             /\ store' = StoreAfter(points, okBatches * UpsertBatchSize)
             /\ built' = BuiltAfter(points)
    /\ IF skip_errors THEN NextFileBatch
       ELSE /\ ig_pc' = "aborted"
            /\ UNCHANGED <<ig_fb, ig_k, all_documents>>
    /\ faults' = faults \cup {<<"upsert", ig_fb>>}
    /\ embed_call' = NoEmbedCall
    /\ UNCHANGED <<ig_files, skip_errors, file_batch_size, ig_run, cache,
                   metrics>>
    /\ UNCHANGED ingestFixed
    /\ UNCHANGED nonIngestVars

\* The same directory is ingested again by a new run (main, lines 466-479):
\* a new process with new counters; the cache directory and the collection
\* are those the last run left.
IngestAgain ==
    /\ ig_pc \in {"done", "aborted"}
    /\ ig_run + 1 \in Runs
    /\ ig_run' = ig_run + 1
    /\ ig_pc' = "init"
    /\ ig_fb' = 1
    /\ ig_k' = 1
    /\ all_documents' = <<>>
    /\ faults' = {}
    /\ metrics' = ZeroMetrics
    /\ embed_call' = NoEmbedCall
    /\ UNCHANGED <<ig_files, skip_errors, file_batch_size, cache, store, built>>
    /\ UNCHANGED ingestFixed
    /\ UNCHANGED nonIngestVars

IngestNext ==
    \/ InitReturns
    \/ InitRaises
    \/ ProcessDocumentReturns
    \/ ProcessDocumentRaises
    \/ EmbedDocumentsReturns
    \/ EmbedDocumentsRaises
    \/ UpsertReturns
    \/ UpsertRaises
    \/ IngestAgain

IngestInit == IngestStart({DefaultConfig}) /\ EmbedIdle /\ ChunkIdle /\ LoadIdle
    /\ UploadIdle
    /\ CleanIdle

SpecIngest == IngestInit /\ [][IngestNext]_vars

-----------------------------------------------------------------------------
\* Claims about the orchestrator (checked under SpecIngest)

\* C3: a cache entry is written only for a chunk whose embedding succeeded:
\* the cache never holds a placeholder vector.
C3_NoPlaceholderCached ==
    \A key \in DOMAIN cache :
        cache[key].kind = "pkl" => pickle_load(cache[key]).kind # "zero"

\* C5: a file ingested in several runs with unchanged content and
\* configuration gets the same set of upload-record identifiers in each of
\* them, and the store never holds more records of a file than the file has
\* chunks, nor in all more records than the directory has distinct chunk ids
\* (a later run overwrites, it does not add).
C5_SameRecordIds ==
    /\ \A f \in 1..Len(ig_files) : \A r1, r2 \in Runs :
          (built[r1][f] # {} /\ built[r2][f] # {}) => built[r1][f] = built[r2][f]
    /\ \A f \in 1..Len(ig_files) :
          Cardinality({r \in store : r.source = FileName(ig_files[f])})
              <= ig_files[f].n
    /\ Cardinality(store) <=
          Cardinality(UNION {{DocId(ig_files[f], i) : i \in 0..(ig_files[f].n - 1)} :
                                f \in 1..Len(ig_files)})

\* C5 witness: the second run has ended and a file of several chunks was
\* uploaded in both runs.
C5_Witness ==
    /\ ig_run = 2
    /\ ig_pc = "done"
    /\ \E f \in 1..Len(ig_files) :
          /\ ig_files[f].n >= 2
          /\ built[1][f] # {}
          /\ built[2][f] # {}
          /\ Cardinality({r \in store : r.source = FileName(ig_files[f])}) = ig_files[f].n

\* C15: a failed upsert call ends the run whatever skip_errors says: once an
\* upsert has failed in a run, the run is aborted (no later file batch, no
\* normal completion).
C15_UpsertFailureFatal ==
    (\E f \in faults : f[1] = "upsert") => ig_pc = "aborted"

\* Runs started with any of the settings, valid or not.
ConfigInit == IngestStart(Configs) /\ EmbedIdle /\ ChunkIdle /\ LoadIdle
    /\ UploadIdle
    /\ CleanIdle

SpecConfig == ConfigInit /\ [][IngestNext]_vars

\* C16: with settings that Settings.validate rejects the run does not
\* complete: it processes no document, embeds nothing and uploads nothing.
C16_InvalidConfigFatal ==
    ~validate(ig_config) =>
        /\ ig_pc # "done"
        /\ metrics = ZeroMetrics
        /\ ~embed_call.called
        /\ store = {}
        /\ \A f \in 1..Len(ig_files) : built[ig_run][f] = {}

\* The files of this run whose processing raised.
FailedFiles == {f[2] : f \in {g \in faults : g[1] = "document"}}

\* The point ids of all chunks of file f.
PointIdsOf(f) ==
    {PointId(DocId(ig_files[f], i)) : i \in 0..(ig_files[f].n - 1)}

\* C17: when process_document raises for a file: with skip_errors the
\* failure is counted once in documents_failed, the run goes on, the file
\* contributes no chunk, and (nothing else failing) all chunks of all other
\* files are uploaded by the end of the run; without skip_errors the run is
\* aborted.
C17_DocumentFailureIsolated ==
    /\ [][faults' \ faults \in {{<<"document", f>>} : f \in 1..Len(ig_files)}
          => /\ metrics'.documents_failed = metrics.documents_failed + 1
             /\ IF skip_errors
                THEN /\ ig_pc' \in {"process", "embed", "done"}
                     /\ <<ig_fb', ig_k'>> # <<ig_fb, ig_k>> \/ ig_pc' # "process"
                ELSE ig_pc' = "aborted"]_vars
    /\ [](skip_errors =>
            \A f \in FailedFiles :
               /\ \A k \in 1..Len(all_documents) : all_documents[k].file # f
               /\ built[ig_run][f] = {})
    /\ []((ig_pc = "done" /\ \A f \in faults : f[1] = "document") =>
            /\ metrics.documents_failed = Cardinality(FailedFiles)
            /\ \A f \in 1..Len(ig_files) :
                  f \notin FailedFiles => built[ig_run][f] = PointIdsOf(f))

\* C17 witness: a run with skip_errors has ended; a file that has chunks
\* failed, and a file after it was uploaded.
C17_Witness ==
    /\ ig_pc = "done"
    /\ skip_errors
    /\ metrics.documents_failed = 1
    /\ \E f \in FailedFiles : \E g \in 1..Len(ig_files) :
          /\ f < g
          /\ ig_files[f].n > 0
          /\ built[ig_run][g] # {}

\* The texts of the documents of the current file batch that get gives
\* nothing for, in document order.
MissedTexts ==
    LET missed(doc) == CacheGet(doc.text) = NoVector
        docs == SelectSeq(all_documents, missed)
    IN [k \in 1..Len(docs) |-> docs[k].text]

\* C20: when embed_documents returns, every chunk the cache had a vector for
\* carries that vector and its text was not sent; the texts sent to the
\* embedding client are exactly those of the other chunks, in document order;
\* nothing is sent when there are none; and every chunk carries a vector.
C20_HitsReusedMissesSent ==
    [][(ig_pc = "embed" /\ ig_pc' = "upsert") =>
          /\ \A k \in 1..Len(all_documents) :
                CacheGet(all_documents[k].text) # NoVector =>
                   /\ all_documents'[k].vector = CacheGet(all_documents[k].text)
                   /\ \A m \in 1..Len(embed_call'.sent) :
                         embed_call'.sent[m] # all_documents[k].text
          /\ embed_call'.sent = MissedTexts
          /\ embed_call'.called = (MissedTexts # <<>>)
          /\ Len(all_documents') = Len(all_documents)
          /\ \A k \in 1..Len(all_documents') :
                /\ all_documents'[k].vector # NoVector
                /\ all_documents'[k].text = all_documents[k].text]_vars

\* C20 witness: embed_documents has returned for a file batch of which one
\* chunk was in the cache and another was sent to the embedding client.
C20_Witness ==
    /\ ig_pc = "upsert"
    /\ embed_call.called
    /\ embed_call.hits # {}
    /\ Len(embed_call.sent) >= 1
    /\ Len(all_documents) = Cardinality(embed_call.hits) + Len(embed_call.sent)

\* The document stage alone: the files of the directory go through
\* process_document, batch by batch, up to the first batch that has
\* documents to embed.
DocumentsNext ==
    \/ InitReturns
    \/ ProcessDocumentReturns
    \/ ProcessDocumentRaises

SpecDocuments == IngestInit /\ [][DocumentsNext]_vars

\* C38: when embed_batch raises in a later sub-batch, the vectors of the
\* texts of its earlier sub-batches are in the cache once embed_documents
\* has failed.
C38_EarlierVectorsCached ==
    [][\A done \in 1..MaxChunks * MaxFiles :
          EmbedDocumentsRaisesAt(done) =>
             \A k \in 1..done :
                CacheGetIn(cache', all_documents[TextsToEmbed[k]].text)
                   # NoVector]_vars

\* The documents of file f among those collected for the current file
\* batch, in the order they were produced.
RecordsOf(f) ==
    LET RECURSIVE Sel(_)
        Sel(k) == IF k > Len(all_documents) THEN <<>>
                  ELSE (IF all_documents[k].file = f THEN <<all_documents[k]>>
                        ELSE <<>>) \o Sel(k + 1)
    IN Sel(1)

\* C31: the records process_document returned for a file are as many as
\* its chunks, n, in production order with chunk_index 0, 1, ..., n-1,
\* total_chunks n in each, and ids <stem>_<chunk_index>, pairwise distinct.
C31_ChunkRecords ==
    \A f \in 1..Len(ig_files) :
       LET rs == RecordsOf(f)
       IN rs # <<>> =>
            /\ Len(rs) = ig_files[f].n
            /\ \A k \in 1..Len(rs) :
                  /\ rs[k].chunk_index = k - 1
                  /\ rs[k].total_chunks = Len(rs)
                  /\ rs[k].id = <<ig_files[f].stem, rs[k].chunk_index>>
                  /\ rs[k].text = <<ig_files[f].content, k - 1>>
            /\ \A k, m \in 1..Len(rs) : k # m => rs[k].id # rs[m].id

\* C31 witness: a file batch of two files, the second of which gave
\* several chunks, has been processed.
C31_Witness ==
    /\ ig_pc = "embed"
    /\ Len(RecordsOf(1)) >= 1
    /\ Len(RecordsOf(2)) >= 2
    /\ Len(all_documents) = Len(RecordsOf(1)) + Len(RecordsOf(2))

\* C35: the records collected for upload from two different files never
\* have the same id (nor, the point id being a function of the id, the same
\* point id), so the upload of one cannot replace a record of the other.
C35_RecordIdsUniqueAcrossFiles ==
    \A k, m \in 1..Len(all_documents) :
       all_documents[k].file # all_documents[m].file =>
          /\ all_documents[k].id # all_documents[m].id
          /\ PointId(all_documents[k].id) # PointId(all_documents[m].id)

\* The failures of the embedding stage and of the upload stage, each with
\* the file batch it happened in.
BatchFailures(fs) == {f \in fs : f[1] \in {"embed", "upsert"}}

\* The point ids the collection holds a record for.
StoredIds(records) == {r.id : r \in records}

\* The files of file batch fb.
FilesOfBatch(fb) ==
    {FileIndex(fb, k) : k \in 1..Len(file_batches[fb])}

\* C30: a record once in the store stays there, in particular when the
\* embedding or the upload of a later file batch fails; with skip_errors
\* such a failure does not end the run: the loop goes on with the next file
\* batch (or ends normally after the last), and the run is never aborted.
C30_PartialProgressKept ==
    /\ [][StoredIds(store) \subseteq StoredIds(store')]_vars
    /\ [][BatchFailures(faults') \ BatchFailures(faults) # {} =>
            /\ BatchFailures(faults') \ BatchFailures(faults)
                  \subseteq {<<"embed", ig_fb>>, <<"upsert", ig_fb>>}
            /\ StoredIds(store) \subseteq StoredIds(store')
            /\ skip_errors =>
                  /\ ig_fb' = ig_fb + 1
                  /\ ig_pc' = IF ig_fb < Len(file_batches) THEN "process" ELSE "done"
            /\ ~skip_errors => ig_pc' = "aborted"]_vars
    /\ [](skip_errors => ig_pc # "aborted")
    /\ []((skip_errors /\ ig_pc = "done") => ig_fb = Len(file_batches) + 1)

\* C30 witness: a run with skip_errors has ended normally; the first file
\* batch was uploaded, the upload of the second failed after it had gone
\* through the embedding stage, and the records of the first are in the
\* store.
C30_Witness ==
    /\ ig_pc = "done"
    /\ skip_errors
    /\ Len(file_batches) = 2
    /\ faults = {<<"upsert", 2>>}
    /\ \A f \in FilesOfBatch(1) :
          /\ ig_files[f].n > 0
          /\ PointIdsOf(f) \subseteq StoredIds(store)
    /\ \E f \in FilesOfBatch(2) : built[ig_run][f] # {}

\* Runs over directories that may hold 0-byte files.
FilesInit ==
    IngestStartWith({DefaultConfig}, TRUE) /\ EmbedIdle /\ ChunkIdle /\ LoadIdle
        /\ UploadIdle
        /\ CleanIdle

SpecFiles == FilesInit /\ [][IngestNext]_vars

\* The 0-byte files of the directory, and those of the current file batch.
ZeroByteFiles == {f \in 1..Len(ig_files) : ig_files[f].content = ""}

BatchFiles ==
    {FileIndex(ig_fb, k) : k \in 1..Len(file_batches[ig_fb])}

\* C21: when process_document returns for a 0-byte file it was loaded from,
\* it returns no document and no counter moves (the file counts neither as
\* processed nor as failed); no document, upload record or built point id
\* ever comes from such a file; and a file batch of only such files reaches
\* neither embed_documents nor upsert_to_qdrant.
C21_ZeroByteFileIgnored ==
    /\ [][(/\ ig_pc = "process"
           /\ FileIndex(ig_fb, ig_k) \in ZeroByteFiles
           /\ faults' = faults)
             => /\ all_documents' = all_documents
                /\ metrics' = metrics
                /\ store' = store
                /\ embed_call' = embed_call]_vars
    /\ [](/\ \A k \in 1..Len(all_documents) :
               all_documents[k].file \notin ZeroByteFiles
          /\ \A r \in Runs : \A f \in ZeroByteFiles : built[r][f] = {}
          /\ \A f \in ZeroByteFiles : \A rec \in store :
               rec.source # FileName(ig_files[f])
          /\ ig_pc \in {"embed", "upsert"} => ~(BatchFiles \subseteq ZeroByteFiles)
          /\ (ig_pc = "done" /\ faults = {}) =>
                /\ metrics.documents_failed = 0
                /\ metrics.documents_processed =
                      Cardinality({f \in 1..Len(ig_files) : ig_files[f].n > 0}))

\* C21 witness: a run ended without any failure on a directory whose first
\* file batch is one 0-byte file and whose second file gave records.
C21_Witness ==
    /\ ig_pc = "done"
    /\ faults = {}
    /\ file_batch_size = 1
    /\ 1 \in ZeroByteFiles
    /\ Len(ig_files) >= 2
    /\ store # {}
    /\ metrics.documents_processed = 1
    /\ metrics.documents_failed = 0

-----------------------------------------------------------------------------
\* DiskCache used directly (helpers.py lines 266-320): get, set and clear on
\* the texts of CacheTexts, with the I/O failures the file system can give.

\* What no cache operation changes.
runVars == <<ig_files, skip_errors, file_batch_size, ig_run, ig_pc, ig_fb, ig_k,
             all_documents, store, built, ig_config, faults, metrics,
             embed_call, sigint>>

\* DiskCache.__init__ (lines 280-282) on an empty directory.
CacheStart ==
    /\ cache = [key \in {get_key(t) : t \in CacheTexts} |-> NoVector]
    /\ cache_ref = [t \in CacheTexts |-> NoVector]
    /\ cache_out = NoCacheOp

\* What get gives for every text, the files being as in files.
Readable(files) == [t \in CacheTexts |-> CacheGetIn(files, t)]

\* How a write can end: done; open(cache_file, 'wb') raises and the file is
\* as it was; the file is created or truncated by open and the dump fails
\* (disk full, size limit), which leaves a file that cannot be loaded.
SetOutcomes == {"ok", "open_failed", "dump_failed"}

\* Lines 308-312: the entry file after set.
EntryAfterSet(entry, value, io) ==
    CASE io = "ok" -> pickle_dump(value)
      [] io = "open_failed" -> entry
      [] io = "dump_failed" -> Corrupt

\* DiskCache.set (lines 303-312): every exception is caught and printed.
CacheSetOp ==
    /\ \E t \in CacheTexts, io \in SetOutcomes :
       \E value \in CacheValues(t) :
          LET key == get_key(t)
              after == [cache EXCEPT ![key] = EntryAfterSet(cache[key], value, io)]
          IN /\ cache' = after
             /\ cache_ref' = [cache_ref EXCEPT ![t] =
                                 IF io = "ok" THEN value ELSE Unknown]
             /\ cache_out' = [op |-> "set", text |-> t, result |-> NoVector,
                              io |-> io, status |-> "returned",
                              changed |-> Readable(after) # Readable(cache)]
    /\ UNCHANGED runVars
    /\ UNCHANGED nonIngestVars

\* How a read can end: done; cache_file.exists() raises (an OSError other
\* than "no such file", e.g. a directory that may not be searched, with
\* pathlib up to Python 3.12) or reports no file on that error (later
\* pathlib); open or pickle.load raises on an existing file.
GetOutcomes == {"ok", "stat_raises", "stat_false", "read_failed"}

\* Lines 288-301: what get returns when it returns.
GetResult(t, io) == IF io = "ok" THEN CacheGet(t) ELSE NoVector

\* DiskCache.get (lines 288-301): exists() is outside the try block.
CacheGetOp ==
    /\ \E t \in CacheTexts, io \in GetOutcomes :
          /\ io = "read_failed" => cache[get_key(t)].kind # "none"
          /\ cache_out' = [op |-> "get", text |-> t, result |-> GetResult(t, io),
                           io |-> io,
                           status |-> IF io = "stat_raises" THEN "raised"
                                      ELSE "returned",
                           changed |-> FALSE]
    /\ UNCHANGED <<cache, cache_ref>>
    /\ UNCHANGED runVars
    /\ UNCHANGED nonIngestVars

\* DiskCache.clear (lines 314-320): every entry file is unlinked; an unlink
\* that raises ends it with the files after it still there.
CacheClearOp ==
    /\ \E removed \in SUBSET (DOMAIN cache) :
          LET all == \A key \in DOMAIN cache :
                         cache[key].kind # "none" => key \in removed
          IN /\ cache' = [key \in DOMAIN cache |->
                             IF key \in removed THEN NoVector ELSE cache[key]]
             /\ cache_ref' = [t \in DOMAIN cache_ref |->
                                 IF get_key(t) \in removed \/ all THEN NoVector
                                 ELSE cache_ref[t]]
             /\ cache_out' = [op |-> "clear", text |-> <<>>, result |-> NoVector,
                              io |-> IF all THEN "ok" ELSE "unlink_failed",
                              status |-> IF all THEN "returned" ELSE "raised",
                              changed |-> Readable(cache') # Readable(cache)]
    /\ UNCHANGED runVars
    /\ UNCHANGED nonIngestVars

CacheNext ==
    \/ CacheSetOp
    \/ CacheGetOp
    \/ CacheClearOp

CacheInit == CacheStart /\ NoRun /\ EmbedIdle /\ ChunkIdle /\ LoadIdle
    /\ UploadIdle
    /\ CleanIdle

SpecCache == CacheInit /\ [][CacheNext]_vars

\* C18: get(text) returns the value last set for that text with success
\* (no failed write of the text and no clear since), whatever was done to
\* other texts in between: a second set of the text wins, a repeated one
\* changes nothing.
C18_CacheRoundTrip ==
    (/\ cache_out.op = "get"
     /\ cache_out.io = "ok"
     /\ cache_ref[cache_out.text].kind \notin {"none", "unknown"})
        => cache_out.result = cache_ref[cache_out.text]

\* C19: a cache I/O failure is absorbed: get and set never raise, a write
\* that fails leaves what the cache gives for every text as it was, and get
\* of an entry that cannot be loaded returns absent.
C19_CacheFailureAbsorbed ==
    /\ cache_out.op \in {"get", "set"} => cache_out.status = "returned"
    /\ (cache_out.op = "set" /\ cache_out.io # "ok") => ~cache_out.changed
    /\ (cache_out.op = "get" /\ cache[get_key(cache_out.text)].kind = "corrupt")
          => cache_out.result = NoVector
    /\ (cache_out.op = "get" /\ cache_out.io # "ok")
          => cache_out.result = NoVector

-----------------------------------------------------------------------------
\* File loader: EnhancedDocumentCleaner.load_file_with_encoding
\* (document_cleaner_enhanced.py lines 74-109)

\* The bytes of the model: 0x61 ("a"), 0xC3 and 0xA9 (together the UTF-8
\* form of e-acute, each a letter of its own in Latin-1), and 0xFF (never
\* part of UTF-8).
Bytes == {"61", "C3", "A9", "FF"}

RawUpTo(n) == UNION {[1..m -> Bytes] : m \in 0..n}

\* What chardet.detect can give: an encoding name (None when it finds
\* nothing; "EUC-TW" is a name Python has no codec for) and a confidence,
\* here in hundredths.
Encodings == {"None", "utf-8", "ascii", "ISO-8859-1", "EUC-TW"}

Confidences == {0, 69, 70, 100}

Detections == [encoding : Encodings, confidence : Confidences]

\* The result of a decode: the characters, or an exception.
Decoded(chars) == [ok |-> TRUE, chars |-> chars]

DecodeError == [ok |-> FALSE, chars |-> <<>>]

\* bytes.decode('utf-8'): strict.
RECURSIVE Utf8Strict(_)
Utf8Strict(raw) ==
    IF raw = <<>> THEN Decoded(<<>>)
    ELSE IF Head(raw) = "61"
    THEN LET rest == Utf8Strict(Tail(raw))
         IN IF rest.ok THEN Decoded(<<"a">> \o rest.chars) ELSE DecodeError
    ELSE IF Head(raw) = "C3" /\ Len(raw) >= 2 /\ raw[2] = "A9"
    THEN LET rest == Utf8Strict(Tail(Tail(raw)))
         IN IF rest.ok THEN Decoded(<<"e-acute">> \o rest.chars)
            ELSE DecodeError
    ELSE DecodeError

\* bytes.decode('utf-8', errors='ignore'): the bytes that are not part of a
\* valid sequence are left out.
RECURSIVE Utf8Ignore(_)
Utf8Ignore(raw) ==
    IF raw = <<>> THEN <<>>
    ELSE IF Head(raw) = "61" THEN <<"a">> \o Utf8Ignore(Tail(raw))
    ELSE IF Head(raw) = "C3" /\ Len(raw) >= 2 /\ raw[2] = "A9"
    THEN <<"e-acute">> \o Utf8Ignore(Tail(Tail(raw)))
    ELSE Utf8Ignore(Tail(raw))

\* bytes.decode('ISO-8859-1'): every byte is a character.
Latin1(raw) ==
    [k \in 1..Len(raw) |->
        CASE raw[k] = "61" -> "a"
          [] raw[k] = "C3" -> "A-tilde"
          [] raw[k] = "A9" -> "copyright"
          [] raw[k] = "FF" -> "y-diaeresis"]

\* raw_data.decode(encoding): UnicodeDecodeError on bytes the codec does not
\* accept, LookupError for an unknown codec, TypeError for None.
Decode(raw, encoding) ==
    CASE encoding = "utf-8" -> Utf8Strict(raw)
      [] encoding = "ascii" ->
            IF \A k \in 1..Len(raw) : raw[k] = "61"
            THEN Decoded([k \in 1..Len(raw) |-> "a"]) ELSE DecodeError
      [] encoding = "ISO-8859-1" -> Decoded(Latin1(raw))
      [] OTHER -> DecodeError

Chars == {"a", "e-acute", "A-tilde", "copyright", "y-diaeresis"}

\* Line 93, with the confidence in hundredths.
ConfidenceFloor == 70

\* A slip of line 93: a confidence of exactly 0.7 counts as low.
LowConfidenceAtMost(confidence) == confidence <= ConfidenceFloor

\* Line 93: if confidence < 0.7.
LowConfidence(confidence) == confidence < ConfidenceFloor

\* A readable file is about to be loaded.
LoadStart ==
    /\ ld_raw \in RawUpTo(MaxBytes)
    /\ ld_chardet \in BOOLEAN
    /\ ld_detect \in Detections
    /\ ld_pc = "open"
    /\ ld_encoding = "None"
    /\ ld_out = NoLoad

\* Lines 84-95: the bytes are read and chardet is asked; a low confidence
\* forces UTF-8.
LoadDetect ==
    /\ ld_pc = "open"
    /\ ld_chardet
    /\ ld_encoding' = IF LowConfidence(ld_detect.confidence) THEN "utf-8"
                      ELSE ld_detect.encoding
    /\ ld_pc' = "decode"
    /\ UNCHANGED <<ld_raw, ld_chardet, ld_detect, ld_out>>
    /\ UNCHANGED nonLoadVars

\* Lines 97-101: decode with the encoding; whatever that raises, decode as
\* UTF-8 leaving the invalid bytes out.
LoadDecode ==
    /\ ld_pc = "decode"
    /\ LET strict == Decode(ld_raw, ld_encoding)
       IN ld_out' = [status |-> "returned",
                     text |-> IF strict.ok THEN strict.chars
                              ELSE Utf8Ignore(ld_raw)]
    /\ ld_pc' = "done"
    /\ UNCHANGED <<ld_raw, ld_chardet, ld_detect, ld_encoding>>
    /\ UNCHANGED nonLoadVars

\* Lines 102-109, without chardet: the file is read as UTF-8 text, and
\* again with errors='ignore' when that raises.
LoadBasic ==
    /\ ld_pc = "open"
    /\ ~ld_chardet
    /\ LET strict == Decode(ld_raw, "utf-8")
       IN ld_out' = [status |-> "returned",
                     text |-> IF strict.ok THEN strict.chars
                              ELSE Utf8Ignore(ld_raw)]
    /\ ld_encoding' = "utf-8"
    /\ ld_pc' = "done"
    /\ UNCHANGED <<ld_raw, ld_chardet, ld_detect>>
    /\ UNCHANGED nonLoadVars

LoadNext ==
    \/ LoadDetect
    \/ LoadDecode
    \/ LoadBasic

LoadInit == LoadStart /\ EmbedIdle /\ ChunkIdle /\ IngestIdle /\ UploadIdle
    /\ CleanIdle

SpecLoad == LoadInit /\ [][LoadNext]_vars

\* The encoding the claim names for a detection.
ChosenEncoding(detect) ==
    IF detect.confidence >= 70 THEN detect.encoding ELSE "utf-8"

\* C24: loading a readable file returns a string whatever its bytes: with
\* chardet, the text is the bytes decoded with the detected encoding when
\* the confidence is at least 0.7 and with UTF-8 when it is lower, and the
\* lossy UTF-8 decoding when that decode raises; without chardet it is the
\* UTF-8 decoding, lossy when the strict one raises.
C24_LoadAlwaysReturns ==
    ld_pc = "done" =>
       /\ ld_out.status = "returned"
       /\ \A k \in 1..Len(ld_out.text) : ld_out.text[k] \in Chars
       /\ LET enc == IF ld_chardet THEN ChosenEncoding(ld_detect) ELSE "utf-8"
              strict == Decode(ld_raw, enc)
          IN /\ strict.ok => ld_out.text = strict.chars
             /\ ~strict.ok => ld_out.text = Utf8Ignore(ld_raw)

\* C24 witness: bytes that are e-acute in UTF-8 followed by a byte UTF-8
\* does not have, detected as Latin-1 with a confidence below 0.7: UTF-8 is
\* forced, its decode raises, and the lossy decoding gives the e-acute.
C24_Witness ==
    /\ ld_pc = "done"
    /\ ld_chardet
    /\ ld_raw = <<"C3", "A9", "FF">>
    /\ ld_detect = [encoding |-> "ISO-8859-1", confidence |-> 69]
    /\ ld_encoding = "utf-8"
    /\ ld_out = [status |-> "returned", text |-> <<"e-acute">>]

-----------------------------------------------------------------------------
\* Upload: DocumentIngester.upsert_to_qdrant (ingest_qdrant_v2.py lines
\* 290-347).  The points are known by their positions in all_points, which
\* are those of the documents (lines 301-312 build one point per document,
\* in order); a slice all_points[from:to] is known by its two ends.

\* Line 325: all_points[i:i + batch_size], with batch_size = 500 (line 318)
UploadSlice(i, n) == [from |-> i, to |-> Min2(i + UpsertBatchSize, n)]

\* A slip of line 339: a sleep after every call.
SleepsAfterEvery(i, n) == TRUE

\* Line 339: if i + batch_size < len(all_points): time.sleep(1)
SleepsAfter(i, n) == i + UpsertBatchSize < n

\* Lines 301-320: the points are built, total_uploaded = 0.
UploadStart ==
    /\ up_points \in 0..MaxPoints
    /\ up_i = 0
    /\ up_pc = "loop"
    /\ up_calls = <<>>
    /\ up_sleeps = {}
    /\ total_uploaded = 0
    /\ up_counted = 0

\* Lines 324-340: one iteration of the for loop over range(0,
\* len(all_points), batch_size): the upsert call returns, the count grows,
\* and the delay runs when another batch follows.
UploadBatch ==
    /\ up_pc = "loop"
    /\ up_i < up_points
    /\ LET slice == UploadSlice(up_i, up_points)
       IN /\ up_calls' = Append(up_calls, slice)
          /\ total_uploaded' = total_uploaded + (slice.to - slice.from)
          /\ up_sleeps' = IF SleepsAfter(up_i, up_points)
                          THEN up_sleeps \cup {Len(up_calls) + 1}
                          ELSE up_sleeps
    /\ up_i' = up_i + UpsertBatchSize
    /\ UNCHANGED <<up_points, up_pc, up_counted>>
    /\ UNCHANGED nonUploadVars

\* Lines 331-334, 345-347: the upsert call of an iteration raises; the
\* error is logged and raised again.
UploadRaises ==
    /\ up_pc = "loop"
    /\ up_i < up_points
    /\ up_pc' = "raised"
    /\ UNCHANGED <<up_points, up_i, up_calls, up_sleeps, total_uploaded,
                   up_counted>>
    /\ UNCHANGED nonUploadVars

\* Lines 342-343: the range is exhausted: total_uploaded is added to the
\* vectors_upserted counter and the call returns.
UploadReturns ==
    /\ up_pc = "loop"
    /\ ~(up_i < up_points)
    /\ up_pc' = "returned"
    /\ up_counted' = up_counted + total_uploaded
    /\ UNCHANGED <<up_points, up_i, up_calls, up_sleeps, total_uploaded>>
    /\ UNCHANGED nonUploadVars

UploadNext ==
    \/ UploadBatch
    \/ UploadRaises
    \/ UploadReturns

UploadInit ==
    UploadStart /\ EmbedIdle /\ ChunkIdle /\ IngestIdle /\ LoadIdle /\ CleanIdle

SpecUpload == UploadInit /\ [][UploadNext]_vars

\* The upsert calls that sent the record at position p (0-based).
CallsOf(p) == {c \in 1..Len(up_calls) : up_calls[c].from <= p /\ p < up_calls[c].to}

\* C29: the calls made so far hold consecutive slices from the first record
\* on, each of at most 500 records and each but the last of exactly 500,
\* and a sleep follows a call exactly when another batch is to follow; when
\* upsert_to_qdrant returns, every record was sent in exactly one call, no
\* sleep followed the last call, and with zero records no call was made.
C29_UploadBatches ==
    /\ \A c \in 1..Len(up_calls) :
          /\ up_calls[c].from = (IF c = 1 THEN 0 ELSE up_calls[c - 1].to)
          /\ up_calls[c].from < up_calls[c].to
          /\ up_calls[c].to - up_calls[c].from <= 500
          /\ up_calls[c].to <= up_points
          /\ c < Len(up_calls) => up_calls[c].to - up_calls[c].from = 500
          /\ c < Len(up_calls) => c \in up_sleeps
    /\ up_sleeps \subseteq 1..Len(up_calls)
    /\ up_pc = "returned" =>
          /\ \A p \in 0..(up_points - 1) : Cardinality(CallsOf(p)) = 1
          /\ Len(up_calls) \notin up_sleeps
          /\ total_uploaded = up_points
          /\ up_points = 0 => up_calls = <<>>

\* The records the store accepted: those of the upsert calls that returned.
RECURSIVE Accepted(_)
Accepted(calls) ==
    IF calls = <<>> THEN 0
    ELSE (calls[1].to - calls[1].from) + Accepted(Tail(calls))

\* C37: after an upsert_to_qdrant call, returned or raised, what it added to
\* vectors_upserted is the number of records the store accepted in it.
C37_CounterMatchesStore ==
    up_pc \in {"returned", "raised"} => up_counted = Accepted(up_calls)

\* C29 witness: 1001 records went up in three calls of 500, 500 and 1
\* records, with a sleep after the first and after the second.
C29_Witness ==
    /\ up_pc = "returned"
    /\ up_points = 2 * UpsertBatchSize + 1
    /\ Len(up_calls) = 3
    /\ up_calls[3] = [from |-> 1000, to |-> 1001]
    /\ up_sleeps = {1, 2}

-----------------------------------------------------------------------------
\* Payload texts: AzureOpenAIEmbedding.validate_and_clean_text
\* (azure_embedding.py lines 56-81).  A text is known by its runs: a run is
\* n characters of one kind, "a" for a printing character, "sp" for
\* whitespace the pattern of line 70 keeps (space, tab, newline), "ctl" for
\* a control character it removes (\x00), "fs" for one it removes that
\* str.strip takes for whitespace (\x1c..\x1f); two runs that meet are of
\* different kinds.

Run(kind, n) == [kind |-> kind, n |-> n]

\* "empty" (lines 67, 81): five printing characters.
Sentinel == <<Run("word", 5)>>

RunKinds == {"a", "sp", "ctl", "fs"}

\* Lengths on both sides of the budget of line 75.
RunLengths == {1, MaxChars - 1, MaxChars}

\* Runs that meet and are of one kind are one run.
RECURSIVE Merge(_)
Merge(t) ==
    IF Len(t) < 2 THEN t
    ELSE IF t[1].kind = t[2].kind
    THEN Merge(<<Run(t[1].kind, t[1].n + t[2].n)>> \o SubSeq(t, 3, Len(t)))
    ELSE <<t[1]>> \o Merge(Tail(t))

PayloadTexts ==
    {Merge(t) : t \in UNION {[1..m -> [kind : RunKinds, n : RunLengths]] :
                                m \in 0..MaxRuns}}

\* len(text)
RECURSIVE TextLen(_)
TextLen(t) == IF t = <<>> THEN 0 ELSE t[1].n + TextLen(Tail(t))

\* What str.strip removes at the two ends.
IsWhite(kind) == kind \in {"sp", "fs"}

\* What the pattern of line 70 removes.
IsControl(kind) == kind \in {"ctl", "fs"}

\* Line 70: re.sub(r'[\x00-\x08\x0b-\x0c\x0e-\x1f\x7f]', '', text)
RECURSIVE DropControl(_)
DropControl(t) ==
    IF t = <<>> THEN <<>>
    ELSE (IF IsControl(t[1].kind) THEN <<>> ELSE <<t[1]>>) \o DropControl(Tail(t))

RemoveControl(t) == Merge(DropControl(t))

\* A slip of line 76: no text is taken for too long.
OverBudgetNever(n) == FALSE

\* Line 76: if len(text) > max_chars
OverBudget(n) == n > MaxChars

\* Line 78: text[:max_chars]
RECURSIVE Truncate(_, _)
Truncate(t, m) ==
    IF t = <<>> \/ m <= 0 THEN <<>>
    ELSE IF t[1].n >= m THEN <<Run(t[1].kind, m)>>
    ELSE <<t[1]>> \o Truncate(Tail(t), m - t[1].n)

\* text.strip() (lines 66, 80)
RECURSIVE StripRuns(_)
StripRuns(t) ==
    IF t = <<>> THEN <<>>
    ELSE IF IsWhite(t[1].kind) THEN StripRuns(Tail(t))
    ELSE IF IsWhite(t[Len(t)].kind) THEN StripRuns(SubSeq(t, 1, Len(t) - 1))
    ELSE t

\* validate_and_clean_text (lines 56-81)
validate_and_clean_text(text) ==
    IF text = <<>> \/ StripRuns(text) = <<>> THEN Sentinel
    ELSE LET cleaned == RemoveControl(text)
             cut == IF OverBudget(TextLen(cleaned))
                    THEN Truncate(cleaned, MaxChars) ELSE cleaned
             stripped == StripRuns(cut)
         IN IF stripped # <<>> THEN stripped ELSE Sentinel

\* embed (line 89) is handed a text.
PayloadStart ==
    /\ cl_text \in PayloadTexts
    /\ cl_pc = "call"
    /\ cl_out = <<>>
    /\ cl_again = <<>>

\* Line 89: the text is cleaned for the payload.
CleanForPayload ==
    /\ cl_pc = "call"
    /\ cl_out' = validate_and_clean_text(cl_text)
    /\ cl_pc' = "returned"
    /\ UNCHANGED <<cl_text, cl_again>>
    /\ UNCHANGED nonCleanVars

\* validate_and_clean_text is applied to a text it returned.
CleanForPayloadAgain ==
    /\ cl_pc = "returned"
    /\ cl_again' = validate_and_clean_text(cl_out)
    /\ cl_pc' = "again"
    /\ UNCHANGED <<cl_text, cl_out>>
    /\ UNCHANGED nonCleanVars

PayloadNext ==
    \/ CleanForPayload
    \/ CleanForPayloadAgain

PayloadInit ==
    PayloadStart /\ EmbedIdle /\ ChunkIdle /\ IngestIdle /\ LoadIdle /\ UploadIdle

SpecPayload == PayloadInit /\ [][PayloadNext]_vars

\* The text has no character but whitespace and characters line 70 removes.
NothingToSend(t) == \A k \in 1..Len(t) : IsWhite(t[k].kind) \/ IsControl(t[k].kind)

\* C32: the string that goes into the payload is not empty, has at most
\* 30,000 characters, no control character and no whitespace at its ends;
\* it is "empty" for a text that is empty, whitespace only, or empty once
\* the control characters are removed; a text longer than the budget is
\* cut to it; and cleaning the cleaned text gives the same text.
C32_PayloadTextBounded ==
    /\ cl_pc \in {"returned", "again"} =>
          /\ cl_out # <<>>
          /\ TextLen(cl_out) >= 1
          /\ TextLen(cl_out) <= 30000
          /\ \A k \in 1..Len(cl_out) : ~IsControl(cl_out[k].kind)
          /\ ~IsWhite(cl_out[1].kind) /\ ~IsWhite(cl_out[Len(cl_out)].kind)
          /\ NothingToSend(cl_text) => cl_out = Sentinel
          /\ cl_out # Sentinel =>
                cl_out = StripRuns(Truncate(RemoveControl(cl_text), 30000))
    /\ cl_pc = "again" => cl_again = cl_out

\* C32 witness: a text of more than 30,000 characters that starts with a
\* control character and whitespace was cut to the budget, and cleaned
\* again.
C32_Witness ==
    /\ cl_pc = "again"
    /\ TextLen(cl_text) > 30000
    /\ Len(cl_text) = 3
    /\ cl_text[1].kind = "ctl"
    /\ cl_text[2].kind = "sp"
    /\ cl_out = <<Run("a", 29999)>>
    /\ cl_again = cl_out

-----------------------------------------------------------------------------
\* General cleaning pass: EnhancedDocumentCleaner._general_clean
\* (document_cleaner_enhanced.py lines 171-183), with the default
\* configuration (no removal pattern, settings.py line 70).  A text is the
\* sequence of its characters.

CleanAlphabet == {"a", " ", "\t", "\n", "\r"}

CleanTexts == UNION {[1..m -> CleanAlphabet] : m \in 0..MaxCleanLen}

\* Line 173: text.replace('\r\n', '\n').replace('\r', '\n')
RECURSIVE UnifyLineEndings(_)
UnifyLineEndings(t) ==
    IF t = <<>> THEN <<>>
    ELSE IF Len(t) >= 2 /\ t[1] = "\r" /\ t[2] = "\n"
    THEN <<"\n">> \o UnifyLineEndings(SubSeq(t, 3, Len(t)))
    ELSE <<IF t[1] = "\r" THEN "\n" ELSE t[1]>> \o UnifyLineEndings(Tail(t))

IsHorizontal(c) == c \in {" ", "\t"}

\* Line 174: re.sub(r'[ \t]+', ' ', text)
RECURSIVE CollapseHorizontal(_)
CollapseHorizontal(t) ==
    IF t = <<>> THEN <<>>
    ELSE IF IsHorizontal(t[1])
    THEN IF Len(t) >= 2 /\ IsHorizontal(t[2])
         THEN CollapseHorizontal(Tail(t))
         ELSE <<" ">> \o CollapseHorizontal(Tail(t))
    ELSE <<t[1]>> \o CollapseHorizontal(Tail(t))

\* The number of newline characters t begins with.
RECURSIVE NewlinesAhead(_)
NewlinesAhead(t) ==
    IF t = <<>> \/ t[1] # "\n" THEN 0 ELSE 1 + NewlinesAhead(Tail(t))

\* Line 175: re.sub(r'\n{3,}', '\n\n', text)
RECURSIVE CollapseNewlines(_)
CollapseNewlines(t) ==
    IF t = <<>> THEN <<>>
    ELSE LET n == NewlinesAhead(t)
         IN IF n >= 3
            THEN <<"\n", "\n">> \o CollapseNewlines(SubSeq(t, n + 1, Len(t)))
            ELSE IF n >= 1
            THEN SubSeq(t, 1, n) \o CollapseNewlines(SubSeq(t, n + 1, Len(t)))
            ELSE <<t[1]>> \o CollapseNewlines(Tail(t))

\* The text up to its first newline, and what follows that newline.
RECURSIVE FirstLine(_)
FirstLine(t) ==
    IF t = <<>> \/ t[1] = "\n" THEN <<>> ELSE <<t[1]>> \o FirstLine(Tail(t))

\* line.strip() for a line (it holds no newline).
RECURSIVE StripLine(_)
StripLine(line) ==
    IF line = <<>> THEN <<>>
    ELSE IF line[1] \in {" ", "\t", "\r"} THEN StripLine(Tail(line))
    ELSE IF line[Len(line)] \in {" ", "\t", "\r"}
    THEN StripLine(SubSeq(line, 1, Len(line) - 1))
    ELSE line

\* Lines 180-181: '\n'.join(line.strip() for line in text.split('\n'))
RECURSIVE StripLines(_)
StripLines(t) ==
    LET line == FirstLine(t)
    IN IF Len(line) = Len(t) THEN StripLine(line)
       ELSE StripLine(line) \o <<"\n">>
                \o StripLines(SubSeq(t, Len(line) + 2, Len(t)))

\* _general_clean (lines 171-183)
general_clean(text) ==
    StripLines(CollapseNewlines(CollapseHorizontal(UnifyLineEndings(text))))

\* clean_text (line 121) hands a text to the general pass.
GeneralStart ==
    /\ cl_text \in CleanTexts
    /\ cl_pc = "call"
    /\ cl_out = <<>>
    /\ cl_again = <<>>

\* _general_clean returns.
GeneralClean ==
    /\ cl_pc = "call"
    /\ cl_out' = general_clean(cl_text)
    /\ cl_pc' = "returned"
    /\ UNCHANGED <<cl_text, cl_again>>
    /\ UNCHANGED nonCleanVars

GeneralInit ==
    GeneralStart /\ EmbedIdle /\ ChunkIdle /\ IngestIdle /\ LoadIdle /\ UploadIdle

SpecGeneral == GeneralInit /\ [][GeneralClean]_vars

\* C33: the text the general cleaning pass returns has no run of three or
\* more newline characters, whatever the input, blank lines of spaces or
\* tabs included.
C33_NoThreeNewlines ==
    cl_pc = "returned" =>
       \A p \in 1..Len(cl_out) : NewlinesAhead(SubSeq(cl_out, p, Len(cl_out))) < 3

====
